---- MODULE Spec2Model ----
(***************************************************************************)
(* Workspace synchronisation engine of eshttp (desktop app and its Vercel  *)
(* GitHub backend).                                                        *)
(*                                                                         *)
(* Spec    : the desktop CollectionsRepository - IndexedDB stores          *)
(*           (imports, workspace_cache, sync_queue), saveRequestText,      *)
(*           the flush loop and the commit orchestrator.                   *)
(* SpecApi : the backend - oauth_states and github_sessions tables and the *)
(*           OAuth start and callback handlers.                            *)
(* SpecCommitApi : the backend's commit endpoint behind completed logins.  *)
(* SpecCalls : overlapping saveRequestText calls, one step per await.      *)
(* SpecLoop, SpecLoopFair : the flush loop with overlapping passes, on a   *)
(*           tauri and a browser-directory import; SpecLoopFair adds the   *)
(*           timer's fairness.                                             *)
(* SpecPayload, SpecWebhook : validateCommitPayload and                    *)
(*           verifyGitHubWebhookSignature applied to drawn inputs.         *)
(* SpecTree : the flush loop together with loadWorkspaceTree calls.        *)
(* SpecResolve, SpecScan, SpecReturnTo, SpecRemoteCommit :                 *)
(*           resolveStorageOption, extractWorkspacesFromRepos, the         *)
(*           returnTo value through the OAuth flow and                     *)
(*           commitWorkspaceFiles, applied to drawn inputs.                *)
(***************************************************************************)
EXTENDS Integers, Sequences, FiniteSets, TLC

\* ------------------------------------------------------------------ bounds

\* number of saveRequestText calls (and of crypto.randomUUID ids for queue entries)
MaxOps == 2
\* number of commitWorkspaceChanges calls
MaxCommits == 1
\* database clock range, in ticks of ten minutes
MaxTime == 2
\* number of createAuthorizationUrl calls
MaxAuth == 2

\* ------------------------------------------------------------- value sets

ImportIds == {"ig", "id", "ih"}
Paths == {"users/List.http", "users/Get.http"}
Contents == {"v1", "v2"}
OriginalText == "v0"
Flushers == {"timer", "commit"}
NoError == ""
DEFAULT_COMMIT_MESSAGE == "chore(eshttp): sync workspace changes"

Range(s) == {s[k] : k \in 1..Len(s)}

EmptyFiles == [p \in {} |-> OriginalText]

VARIABLES
  imports,        \* IndexedDB store "imports": import id -> ImportRecord
  cacheWorkspace, \* IndexedDB store "workspace_cache": import id -> snapshot
  syncQueue,      \* IndexedDB store "sync_queue": set of SyncQueueRecord
  disk,           \* backend files of each import: import id -> path -> text
  clock,          \* Date.now()
  usedIds,        \* ids crypto.randomUUID has returned
  flush,          \* the flushSyncQueue passes in progress
  commit,         \* the commitWorkspaceChanges call in progress / its result
  commitCalls,    \* backend commit invocations made so far
  attempts,       \* commitWorkspaceChanges calls started so far
  saves,          \* saveRequestText calls so far
  history,        \* every queue entry ever created, in creation order
  applied,        \* ids of entries whose applySyncWrite has succeeded
  flushedPaths,   \* per import: paths flushed successfully since the last commit
  oauthStates,    \* table oauth_states
  sessions,       \* table github_sessions
  now,            \* database NOW()
  callbacks,      \* OAuth callback requests in progress
  cookies,        \* Set-Cookie headers handed to browsers
  lastCommitReq,  \* the last request handled by POST /api/github/commit
  grants,         \* per state hash: consumptions granted since it was last saved
  authCount,      \* createAuthorizationUrl calls so far
  calls,          \* mutating repository calls in progress, each with its locals
  probe,          \* the function call under examination: its input and its result
  backendAccepts, \* the storage backends have recovered: every write is accepted
  requestIndex    \* the repository's in-memory request index, rebuilt on tree load

repoVars == <<imports, cacheWorkspace, syncQueue, disk, clock, usedIds,
              flush, commit, commitCalls, attempts, saves, history, applied, flushedPaths>>
apiVars == <<oauthStates, sessions, now, callbacks, cookies, lastCommitReq, grants,
             authCount>>
auxVars == <<calls, probe, backendAccepts, requestIndex>>
vars == <<repoVars, apiVars, auxVars>>

\* ------------------------------------------------- storage strategies

\* ImportRecord as persisted in the "imports" store
ImportRecord(id, runtime, storage, storageKind) ==
  [id |-> id, runtime |-> runtime, storage |-> storage, storageKind |-> storageKind,
   hasLocator |-> TRUE,
   pendingGitPaths |-> <<>>, pendingGitFileContents |-> EmptyFiles]

WebDirectStorageOption == [name |-> "web-direct", kind |-> "direct", supportsCommit |-> FALSE]
WebGitHubStorageOption == [name |-> "web-github", kind |-> "github", supportsCommit |-> TRUE]
\* faulty variant: the direct strategy advertises commit support
TauriDirectStorageOption_Commit ==
  [name |-> "tauri-direct", kind |-> "direct", supportsCommit |-> TRUE]
TauriDirectStorageOption == [name |-> "tauri-direct", kind |-> "direct", supportsCommit |-> FALSE]
TauriGitStorageOption == [name |-> "tauri-git", kind |-> "git", supportsCommit |-> TRUE]

\* faulty variant: every tauri import resolves to the git strategy
ResolveStorageOption_KindIgnored(importRecord) ==
  IF importRecord.runtime = "web"
  THEN IF importRecord.storageKind = "github"
       THEN WebGitHubStorageOption
       ELSE WebDirectStorageOption
  ELSE TauriGitStorageOption

\* faulty variant: a github record resolves to the remote strategy on any runtime
ResolveStorageOption_RuntimeIgnored(importRecord) ==
  IF importRecord.storageKind = "github" THEN WebGitHubStorageOption
  ELSE IF importRecord.runtime = "web" THEN WebDirectStorageOption
  ELSE IF importRecord.storageKind = "git" THEN TauriGitStorageOption
  ELSE TauriDirectStorageOption

ResolveStorageOption(importRecord) ==
  IF importRecord.runtime = "web"
  THEN IF importRecord.storageKind = "github"
       THEN WebGitHubStorageOption
       ELSE WebDirectStorageOption
  ELSE IF importRecord.storageKind = "git"
       THEN TauriGitStorageOption
       ELSE TauriDirectStorageOption

\* faulty variant: the github strategy lets a save through
CheckSave_GitHubOk(storage, importRecord, granted) ==
  CASE storage.name = "web-direct" ->
         IF ~importRecord.hasLocator
         THEN [ok |-> FALSE, reason |-> "Imported web directory handle is missing"]
         ELSE IF ~granted
         THEN [ok |-> FALSE, reason |-> "No write permission for selected directory"]
         ELSE [ok |-> TRUE, reason |-> NoError]
    [] storage.name = "web-github" -> [ok |-> TRUE, reason |-> NoError]
    [] OTHER ->
         IF ~importRecord.hasLocator
         THEN [ok |-> FALSE, reason |-> "Imported path is missing for tauri workspace"]
         ELSE [ok |-> TRUE, reason |-> NoError]

\* faulty variant: the browser-directory strategy does not ask for permission
CheckSave_PermissionIgnored(storage, importRecord, granted) ==
  CASE storage.name = "web-direct" ->
         IF ~importRecord.hasLocator
         THEN [ok |-> FALSE, reason |-> "Imported web directory handle is missing"]
         ELSE [ok |-> TRUE, reason |-> NoError]
    [] storage.name = "web-github" ->
         [ok |-> FALSE,
          reason |-> "GitHub storage writes are tracked in cache and committed in batch."]
    [] OTHER ->
         IF ~importRecord.hasLocator
         THEN [ok |-> FALSE, reason |-> "Imported path is missing for tauri workspace"]
         ELSE [ok |-> TRUE, reason |-> NoError]

\* storage.checkSave(input); granted is the answer of ensureReadWritePermission
CheckSave(storage, importRecord, granted) ==
  CASE storage.name = "web-direct" ->
         IF ~importRecord.hasLocator
         THEN [ok |-> FALSE, reason |-> "Imported web directory handle is missing"]
         ELSE IF ~granted
         THEN [ok |-> FALSE, reason |-> "No write permission for selected directory"]
         ELSE [ok |-> TRUE, reason |-> NoError]
    [] storage.name = "web-github" ->
         [ok |-> FALSE,
          reason |-> "GitHub storage writes are tracked in cache and committed in batch."]
    [] OTHER ->
         IF ~importRecord.hasLocator
         THEN [ok |-> FALSE, reason |-> "Imported path is missing for tauri workspace"]
         ELSE [ok |-> TRUE, reason |-> NoError]

\* storage.checkCommit(input)
CheckCommit(storage, importRecord, files) ==
  CASE storage.name = "web-github" ->
         IF ~importRecord.hasLocator
         THEN [ok |-> FALSE,
               reason |-> "GitHub repository metadata is missing for imported workspace"]
         ELSE IF DOMAIN files = {}
         THEN [ok |-> FALSE, reason |-> "No pending file content found for commit"]
         ELSE [ok |-> TRUE, reason |-> NoError]
    [] OTHER ->
         IF ~importRecord.hasLocator
         THEN [ok |-> FALSE,
               reason |-> "Git repository root is missing for imported workspace"]
         ELSE [ok |-> TRUE, reason |-> NoError]

\* answers the backend can give to a commit call
BackendAnswers(storage) ==
  IF storage.name = "web-github" THEN {"200", "403", "500"} ELSE {"ok", "git commit failed"}
BackendAccepted(answer) == answer \in {"ok", "200"}

\* faulty variant: a response that is not ok is not thrown
CommitToGitHubBackend_NoThrow(response) == NoError

\* commitToGitHubBackend: throws unless response.ok
CommitToGitHubBackend(response) ==
  IF response # "200"
  THEN IF response = "403" THEN "GITHUB_REAUTH_REQUIRED" ELSE "GitHub commit failed"
  ELSE NoError

\* storage.commit(input): the error thrown, NoError when it returned; the commit of
\* createTauriGitStorageOption rejects when invoke("git_commit_paths") fails
StorageCommit(storage, answer) ==
  IF storage.name = "web-github" THEN CommitToGitHubBackend(answer)
  ELSE IF answer = "ok" THEN NoError ELSE answer

\* ------------------------------------------------------ IndexedDB stores

RECURSIVE SortByCreatedAt(_)
SortByCreatedAt(S) ==
  IF S = {} THEN <<>>
  ELSE LET first == CHOOSE e \in S : \A o \in S :
                      \/ e.createdAt < o.createdAt
                      \/ (e.createdAt = o.createdAt /\ e.id <= o.id)
       IN <<first>> \o SortByCreatedAt(S \ {first})

\* store.getAll() returns records in key (id) order; the sort by createdAt is stable
ListSyncQueue(store) == SortByCreatedAt(store)

\* faulty variant: a record carrying an error is deleted instead of stored
PutSyncOp_DropFailed(store, record) ==
  {e \in store : e.id # record.id} \cup (IF record.error = NoError THEN {record} ELSE {})

PutSyncOp(store, record) == {e \in store : e.id # record.id} \cup {record}

\* faulty variant: the delete leaves the record in the store
DeleteSyncOp_Keep(store, id) == store

DeleteSyncOp(store, id) == {e \in store : e.id # id}

SyncQueueRecord(id, importId, relativePath, content, createdAt) ==
  [id |-> id, importId |-> importId, type |-> "write", relativePath |-> relativePath,
   content |-> content, createdAt |-> createdAt, error |-> NoError]

NoCache == [present |-> FALSE, texts |-> [p \in Paths |-> OriginalText]]

\* snapshotReadonlyTauriWorkspace / snapshotReadonlyWebWorkspace: every request's text
SnapshotReadonlyWorkspace(files) == [present |-> TRUE, texts |-> files]

\* ensureEditableWorkspace: snapshot only when no cache exists
EnsureEditableWorkspace(cache, files) ==
  IF cache.present THEN cache ELSE SnapshotReadonlyWorkspace(files)

\* deduplicated append to pendingGitPaths
AppendPendingPath(pending, path) ==
  IF path \in Range(pending) THEN pending ELSE Append(pending, path)

\* a successful sync write on a git import tracks the written path
TrackPendingGitPath(importRecord, path) ==
  IF ResolveStorageOption(importRecord).kind = "git"
  THEN [importRecord EXCEPT !.pendingGitPaths = AppendPendingPath(@, path)]
  ELSE importRecord

\* a save on a github import stages the text instead of queueing a write
StagePendingGitFile(importRecord, path, text) ==
  [importRecord EXCEPT
     !.pendingGitPaths = AppendPendingPath(@, path),
     !.pendingGitFileContents =
        [p \in DOMAIN @ \cup {path} |-> IF p = path THEN text ELSE @[p]]]

\* a successful commit clears the tracked state
ClearPending(importRecord) ==
  [importRecord EXCEPT !.pendingGitPaths = <<>>, !.pendingGitFileContents = EmptyFiles]

\* workspace-relative pending path -> path relative to the git repository root
ToRepoRelativePath(importRecord, path) ==
  IF ResolveStorageOption(importRecord).name = "tauri-git"
  THEN <<"workspace", path>>
  ELSE <<path>>


\* applySyncWrite: the error thrown, NoError when the write went through
ApplySyncWrite(importRecord, granted, writeOk) ==
  LET storage == ResolveStorageOption(importRecord)
      check == CheckSave(storage, importRecord, granted)
  IN IF ~check.ok THEN check.reason
     ELSE IF writeOk THEN NoError ELSE "write_text_file failed"


\* ---------------------------------------------------- CollectionsRepository

IdleFlush == [phase |-> "idle", queue |-> <<>>, idx |-> 0]

IdleCommit ==
  [pc |-> "idle", importId |-> "ig", given |-> "", message |-> "", paths |-> <<>>,
   files |-> EmptyFiles,
   result |-> "none", committedPaths |-> 0, called |-> FALSE, accepted |-> FALSE,
   emptyAtCall |-> FALSE]

InitRepo ==
  /\ imports = [i \in ImportIds |->
                  CASE i = "ig" -> ImportRecord(i, "tauri", "filesystem", "git")
                    [] i = "id" -> ImportRecord(i, "tauri", "filesystem", "direct")
                    [] OTHER -> ImportRecord(i, "web", "indexeddb", "github")]
  /\ disk = [i \in ImportIds |-> [p \in Paths |-> OriginalText]]
  /\ cacheWorkspace = [i \in ImportIds |->
                         IF i = "ih" THEN SnapshotReadonlyWorkspace(disk[i]) ELSE NoCache]
  /\ syncQueue = {}
  /\ clock = 0
  /\ usedIds = {}
  /\ flush = [f \in Flushers |-> IdleFlush]
  /\ commit = IdleCommit
  /\ commitCalls = 0
  /\ attempts = 0
  /\ saves = 0
  /\ history = <<>>
  /\ applied = {}
  /\ flushedPaths = [i \in ImportIds |-> {}]

\* saveRequestText on a filesystem-backed import: cache, then one queued write.
\* Saves are taken at least a millisecond apart, so createdAt orders the entries,
\* and ids are numbered in the order crypto.randomUUID hands them out.
SaveRequestText(i, p, text) ==
  /\ imports[i].storage = "filesystem"
  /\ saves < MaxOps
  /\ saves' = saves + 1
  /\ \E id \in {Cardinality(usedIds) + 1}, t \in {clock + 1} :
       LET cache == EnsureEditableWorkspace(cacheWorkspace[i], disk[i])
           op == SyncQueueRecord(id, i, p, text, t)
       IN /\ cacheWorkspace' = [cacheWorkspace EXCEPT ![i] = [cache EXCEPT !.texts[p] = text]]
          /\ syncQueue' = PutSyncOp(syncQueue, op)
          /\ usedIds' = usedIds \cup {id}
          /\ clock' = t
          /\ history' = Append(history, op)
  /\ UNCHANGED <<imports, disk, flush, commit, commitCalls, attempts, applied,
                 flushedPaths>>

\* saveRequestText on a github import: cache, then staged content, no queued write
SaveGitHubRequestText(i, p, text) ==
  /\ imports[i].storage = "indexeddb"
  /\ saves < MaxOps
  /\ saves' = saves + 1
  /\ LET cache == EnsureEditableWorkspace(cacheWorkspace[i], disk[i])
     IN cacheWorkspace' = [cacheWorkspace EXCEPT ![i] = [cache EXCEPT !.texts[p] = text]]
  /\ imports' = [imports EXCEPT ![i] = StagePendingGitFile(@, p, text)]
  /\ UNCHANGED <<syncQueue, disk, clock, usedIds, flush, commit, commitCalls,
                 attempts, history, applied, flushedPaths>>

\* faulty variant: a pass leaves out the entries that carry an error
BeginPass_SkipFailed(queue) ==
  LET fresh == SelectSeq(queue, LAMBDA op : op.error = NoError)
  IN IF fresh = <<>> THEN IdleFlush
     ELSE [phase |-> "apply", queue |-> fresh, idx |-> 1]

\* flushSyncQueue, first line: const queue = await listSyncQueue()
BeginPass(queue) ==
  IF queue = <<>> THEN IdleFlush
  ELSE [phase |-> "apply", queue |-> queue, idx |-> 1]

\* a flushSyncQueue call: a fire of the sync loop's timer, or the unload handler
FlushStart ==
  /\ flush["timer"].phase = "idle"
  /\ flush' = [flush EXCEPT !["timer"] = BeginPass(ListSyncQueue(syncQueue))]
  /\ UNCHANGED <<imports, cacheWorkspace, syncQueue, disk, clock, usedIds, saves, commit,
                 commitCalls, attempts, history, applied, flushedPaths>>

NextItem(pass) ==
  IF pass.idx < Len(pass.queue)
  THEN [pass EXCEPT !.idx = @ + 1]
  ELSE IdleFlush

\* flushSyncQueue, one iteration of the loop: applySyncWrite, then deleteSyncOp,
\* or the catch block's putSyncOp of the same record with the error message;
\* granted is the permission answer and writeOk the backend's answer to the write
FlushIteration(f, granted, writeOk) ==
  /\ flush[f].phase = "apply"
  /\ LET item == flush[f].queue[flush[f].idx]
     IN   LET error == ApplySyncWrite(imports[item.importId], granted, writeOk)
          IN IF error = NoError
             THEN /\ disk' = [disk EXCEPT ![item.importId][item.relativePath] = item.content]
                  /\ applied' = applied \cup {item.id}
                  /\ syncQueue' = DeleteSyncOp(syncQueue, item.id)
                  /\ imports' = [imports EXCEPT
                                   ![item.importId] = TrackPendingGitPath(@, item.relativePath)]
                  /\ flushedPaths' = [flushedPaths EXCEPT
                                        ![item.importId] = @ \cup {item.relativePath}]
             ELSE /\ syncQueue' = PutSyncOp(syncQueue, [item EXCEPT !.error = error])
                  /\ UNCHANGED <<disk, applied, imports, flushedPaths>>
  /\ flush' = [flush EXCEPT ![f] = NextItem(@)]
  /\ UNCHANGED <<cacheWorkspace, clock, usedIds, saves, commit, commitCalls, attempts,
                 history>>

FlushItem(f) ==
  \E granted \in BOOLEAN, writeOk \in BOOLEAN : FlushIteration(f, granted, writeOk)

\* commitWorkspaceChanges: resolve the strategy, reject or start the flush
CommitBegin(i, message) ==
  /\ commit.pc = "idle"
  /\ attempts < MaxCommits
  /\ attempts' = attempts + 1
  /\ IF ~ResolveStorageOption(imports[i]).supportsCommit
     THEN /\ commit' = [IdleCommit EXCEPT
                           !.importId = i, !.given = message, !.result = "unsupported",
                           !.emptyAtCall = (imports[i].pendingGitPaths = <<>>)]
          /\ UNCHANGED flush
     ELSE /\ commit' = [IdleCommit EXCEPT !.pc = "flushing", !.importId = i,
                                          !.given = message,
                                          !.message = IF message = "" THEN DEFAULT_COMMIT_MESSAGE
                                                      ELSE message,
                                          !.emptyAtCall = (imports[i].pendingGitPaths = <<>>)]
          /\ flush' = [flush EXCEPT !["commit"] = BeginPass(ListSyncQueue(syncQueue))]
  /\ UNCHANGED <<imports, cacheWorkspace, syncQueue, disk, clock, usedIds, saves,
                 commitCalls, history, applied, flushedPaths>>

\* faulty variant: no pending paths still means a backend commit
CommitDecision_NoEmpty(importRecord, queue) ==
  IF \E k \in 1..Len(queue) : queue[k].importId = importRecord.id THEN "blocked"
  ELSE "commit"

\* commitWorkspaceChanges after its flush: what to do with the import
CommitDecision(importRecord, queue) ==
  IF \E k \in 1..Len(queue) : queue[k].importId = importRecord.id THEN "blocked"
  ELSE IF importRecord.pendingGitPaths = <<>> THEN "empty"
  ELSE "commit"

\* commitWorkspaceChanges after its flush: block, no-op, or call storage.commit
CommitInvoke ==
  /\ commit.pc = "flushing"
  /\ flush["commit"].phase = "idle"
  /\ LET i == commit.importId
         importRecord == imports[i]
         storage == ResolveStorageOption(importRecord)
         pending == importRecord.pendingGitPaths
         files == importRecord.pendingGitFileContents
         decision == CommitDecision(importRecord, ListSyncQueue(syncQueue))
     IN IF decision = "blocked"
        THEN /\ commit' = [commit EXCEPT !.pc = "idle", !.result = "blocked"]
             /\ UNCHANGED commitCalls
        ELSE IF decision = "empty"
        THEN /\ commit' = [commit EXCEPT !.pc = "idle", !.result = "empty",
                                         !.committedPaths = 0]
             /\ UNCHANGED commitCalls
        ELSE IF ~CheckCommit(storage, importRecord, files).ok
        THEN /\ commit' = [commit EXCEPT !.pc = "idle", !.result = "failed"]
             /\ UNCHANGED commitCalls
        ELSE /\ commit' = [commit EXCEPT
                             !.pc = "inflight",
                             !.paths = [k \in 1..Len(pending) |->
                                          ToRepoRelativePath(importRecord, pending[k])],
                             !.files = files,
                             !.called = TRUE]
             /\ commitCalls' = commitCalls + 1
  /\ UNCHANGED <<imports, cacheWorkspace, syncQueue, disk, clock, usedIds, saves, flush,
                 attempts, history, applied, flushedPaths>>

\* the backend answers the commit call: clear the tracked state on success only
CommitComplete ==
  /\ commit.pc = "inflight"
  /\ LET i == commit.importId
         storage == ResolveStorageOption(imports[i])
     IN \E answer \in BackendAnswers(storage) :
          IF StorageCommit(storage, answer) = NoError
          THEN /\ imports' = [imports EXCEPT ![i] = ClearPending(@)]
               /\ flushedPaths' = [flushedPaths EXCEPT ![i] = {}]
               /\ commit' = [commit EXCEPT !.pc = "idle", !.result = "committed",
                                           !.committedPaths = Len(commit.paths),
                                           !.accepted = BackendAccepted(answer)]
          ELSE /\ commit' = [commit EXCEPT !.pc = "idle", !.result = "failed",
                                           !.accepted = BackendAccepted(answer)]
               /\ UNCHANGED <<imports, flushedPaths>>
  /\ UNCHANGED <<cacheWorkspace, syncQueue, disk, clock, usedIds, saves, flush,
                 commitCalls, attempts, history, applied>>

ApiIdle == UNCHANGED <<apiVars, auxVars>>

NextRepo ==
  \/ \E i \in ImportIds, p \in Paths, text \in Contents :
       SaveRequestText(i, p, text) /\ ApiIdle
  \/ \E i \in ImportIds, p \in Paths, text \in Contents :
       SaveGitHubRequestText(i, p, text) /\ ApiIdle
  \/ FlushStart /\ ApiIdle
  \/ \E f \in Flushers : FlushItem(f) /\ ApiIdle
  \/ \E i \in ImportIds, message \in {"", "sync"} : CommitBegin(i, message) /\ ApiIdle
  \/ CommitInvoke /\ ApiIdle
  \/ CommitComplete /\ ApiIdle


\* ------------------------------------- CollectionsRepository: overlapping calls

\* the imports of the specifications below: a tauri folder and a browser directory
LoopImports == {"id", "iw"}

InitLoop ==
  /\ imports = [i \in LoopImports |->
                  IF i = "id" THEN ImportRecord(i, "tauri", "filesystem", "direct")
                  ELSE ImportRecord(i, "web", "filesystem", "direct")]
  /\ disk = [i \in LoopImports |-> [p \in Paths |-> OriginalText]]
  /\ cacheWorkspace = [i \in LoopImports |-> NoCache]
  /\ syncQueue = {}
  /\ clock = 0
  /\ usedIds = {}
  /\ flush = [f \in Flushers |-> IdleFlush]
  /\ commit = IdleCommit
  /\ commitCalls = 0
  /\ attempts = 0
  /\ saves = 0
  /\ history = <<>>
  /\ applied = {}
  /\ flushedPaths = [i \in LoopImports |-> {}]

\* the callers whose saveRequestText calls may overlap
Callers == {"a", "b"}

IdleCall ==
  [pc |-> "idle", importId |-> "id", path |-> "users/List.http", text |-> OriginalText,
   cache |-> NoCache]

\* saveRequestText up to its first await: the request index entry is editable only
\* if the tree was built when a cached snapshot existed
SaveRequestTextBegin(c, i, p, text, mode) ==
  /\ calls[c].pc = "idle"
  /\ mode = "editable" => cacheWorkspace[i].present
  /\ calls' = [calls EXCEPT ![c] =
                 [IdleCall EXCEPT !.pc = IF mode = "editable" THEN "load" ELSE "ensure",
                                  !.importId = i, !.path = p, !.text = text]]
  /\ UNCHANGED <<repoVars, apiVars, probe, backendAccepts, requestIndex>>

\* ensureEditableWorkspace: const existing = await getCacheWorkspace(importId)
EnsureEditableWorkspaceCheck(c) ==
  /\ calls[c].pc = "ensure"
  /\ calls' = [calls EXCEPT ![c].pc =
                 IF cacheWorkspace[calls[c].importId].present THEN "load" ELSE "snapshot"]
  /\ UNCHANGED <<repoVars, apiVars, probe, backendAccepts, requestIndex>>

\* ensureEditableWorkspace: the snapshot of the readonly tree and putCacheWorkspace
EnsureEditableWorkspacePut(c) ==
  /\ calls[c].pc = "snapshot"
  /\ cacheWorkspace' = [cacheWorkspace EXCEPT
                          ![calls[c].importId] = SnapshotReadonlyWorkspace(disk[calls[c].importId])]
  /\ calls' = [calls EXCEPT ![c].pc = "load"]
  /\ UNCHANGED <<imports, syncQueue, disk, clock, usedIds, flush, commit, commitCalls,
                 attempts, saves, history, applied, flushedPaths, apiVars, probe,
                 backendAccepts, requestIndex>>

\* saveRequestText: const cache = await getCacheWorkspace(editable.importId)
GetCacheWorkspace(c) ==
  /\ calls[c].pc = "load"
  /\ calls' = [calls EXCEPT ![c].cache = cacheWorkspace[calls[c].importId],
                            ![c].pc = "store"]
  /\ UNCHANGED <<repoVars, apiVars, probe, backendAccepts, requestIndex>>

\* saveRequestText: request.text = text; await putCacheWorkspace(cache)
PutCacheWorkspace(c) ==
  /\ calls[c].pc = "store"
  /\ cacheWorkspace' = [cacheWorkspace EXCEPT
                          ![calls[c].importId] =
                             [calls[c].cache EXCEPT !.texts[calls[c].path] = calls[c].text]]
  /\ calls' = [calls EXCEPT ![c].pc = "queue"]
  /\ UNCHANGED <<imports, syncQueue, disk, clock, usedIds, flush, commit, commitCalls,
                 attempts, saves, history, applied, flushedPaths, apiVars, probe,
                 backendAccepts, requestIndex>>

\* saveRequestText: await putSyncOp({ id: crypto.randomUUID(), ... })
QueueSyncOp(c) ==
  /\ calls[c].pc = "queue"
  /\ \E id \in {Cardinality(usedIds) + 1}, t \in {clock + 1} :
       LET op == SyncQueueRecord(id, calls[c].importId, calls[c].path, calls[c].text, t)
       IN /\ syncQueue' = PutSyncOp(syncQueue, op)
          /\ usedIds' = usedIds \cup {id}
          /\ clock' = t
          /\ history' = Append(history, op)
  /\ calls' = [calls EXCEPT ![c].pc = "done"]
  /\ UNCHANGED <<imports, cacheWorkspace, disk, flush, commit, commitCalls, attempts,
                 saves, applied, flushedPaths, apiVars, probe,
                 backendAccepts, requestIndex>>

\* saveRequestText: the putSyncOp transaction fails (aborted, or over quota) and the
\* call rejects; the putCacheWorkspace transaction before it has committed
QueueSyncOpRejected(c) ==
  /\ calls[c].pc = "queue"
  /\ calls' = [calls EXCEPT ![c].pc = "failed"]
  /\ UNCHANGED <<repoVars, apiVars, probe, backendAccepts, requestIndex>>

NextCalls ==
  \/ \E c \in Callers, i \in LoopImports, p \in Paths, text \in Contents,
        mode \in {"readonly", "editable"} : SaveRequestTextBegin(c, i, p, text, mode)
  \/ \E c \in Callers : EnsureEditableWorkspaceCheck(c)
  \/ \E c \in Callers : EnsureEditableWorkspacePut(c)
  \/ \E c \in Callers : GetCacheWorkspace(c)
  \/ \E c \in Callers : PutCacheWorkspace(c)
  \/ \E c \in Callers : QueueSyncOp(c)
  \/ \E c \in Callers : QueueSyncOpRejected(c)

\* ------------------------------------- CollectionsRepository: the sync loop

\* a flushSyncQueue call - a fire of the 2-second timer or the unload handler -
\* whichever pass slot is free; the slots bound the passes in flight to two
FlushSyncQueue(f) ==
  /\ flush[f].phase = "idle"
  /\ flush' = [flush EXCEPT ![f] = BeginPass(ListSyncQueue(syncQueue))]
  /\ UNCHANGED <<imports, cacheWorkspace, syncQueue, disk, clock, usedIds, saves, commit,
                 commitCalls, attempts, history, applied, flushedPaths>>

\* faulty variant: the entries are not filtered by import
BuildSyncStatus_AnyImport(importId, queue) ==
  IF \E k \in 1..Len(queue) : queue[k].error # NoError THEN "error"
  ELSE IF Len(queue) > 0 THEN "pending" ELSE "synced"

\* buildSyncStatus
BuildSyncStatus(importId, queue) ==
  LET importOps == SelectSeq(queue, LAMBDA op : op.importId = importId)
  IN IF \E k \in 1..Len(importOps) : importOps[k].error # NoError THEN "error"
     ELSE IF Len(importOps) > 0 THEN "pending" ELSE "synced"

NextLoop ==
  \/ \E i \in LoopImports, p \in Paths, text \in Contents :
       SaveRequestText(i, p, text) /\ ApiIdle
  \/ \E f \in Flushers : FlushSyncQueue(f) /\ ApiIdle
  \/ \E f \in Flushers : FlushItem(f) /\ ApiIdle


\* ------------------------------------------------------------ backend: values

\* DEFAULT_STATE_TTL_SECONDS = 600, in ticks of ten minutes
StateTtl == 1
\* interval '1 day', in ticks of ten minutes
OneDay == 144

StateTokens == {"st1", "st2"}
SessionTokens == {"sk1", "sk2"}
AccessTokens == {"gho_read", "gho_write"}
Intents == {"read", "write"}
Callbacks == {"cb1", "cb2"}
SessionEncryptionKey == "key"
AppOrigin == "https://app.example"

\* sha256Base64Url: a fixed injective map into digests, none of which is an input
Sha256Base64Url(value) ==
  CASE value = "st1" -> "sha256:st1"
    [] value = "st2" -> "sha256:st2"
    [] value = "sk1" -> "sha256:sk1"
    [] value = "sk2" -> "sha256:sk2"
    [] OTHER -> "sha256:other"

\* encryptSecret: "<iv>.<tag>.<ciphertext>" under AES-256-GCM
EncryptSecret(value, key) ==
  CASE value = "gho_read" /\ key = SessionEncryptionKey -> "iv.tag.enc(gho_read)"
    [] value = "gho_write" /\ key = SessionEncryptionKey -> "iv.tag.enc(gho_write)"
    [] OTHER -> "iv.tag.enc(?)"

DecryptFailed == "decrypt-throws"

\* decryptSecret: throws on a malformed payload or a failed authentication tag
DecryptSecret(payload, key) ==
  IF \E v \in AccessTokens : EncryptSecret(v, key) = payload
  THEN CHOOSE v \in AccessTokens : EncryptSecret(v, key) = payload
  ELSE DecryptFailed

\* the scopes GitHub grants with an access token
GrantedScopes(accessToken) ==
  IF accessToken = "gho_write" THEN <<"read:user", "repo", "repo">> ELSE <<"read:user", "">>

\* normalizeScopes: trimmed, non-empty, unique, sorted, space-joined; the joined text
\* of a sorted unique list is modelled as the set of its words
NormalizeScopes(scopes) == {scopes[k] : k \in 1..Len(scopes)} \ {""}

\* parseScopes: the words of scopes_text
ParseScopes(scopesText) == scopesText

\* faulty variant: any granted scope counts as write access
HasWriteScope_AnyScope(scopes) == scopes # {}

\* hasWriteScope
HasWriteScope(scopes) == "repo" \in scopes \/ "public_repo" \in scopes

\* a returnTo value is the sequence of the pieces of its text: a leading origin,
\* "/" and path words
Origins == {"https://app.example", "https://evil.example"}

RECURSIVE TrimStart(_)
TrimStart(value) ==
  IF value # <<>> /\ Head(value) = " " THEN TrimStart(Tail(value)) ELSE value

RECURSIVE TrimEnd(_)
TrimEnd(value) ==
  IF value # <<>> /\ value[Len(value)] = " "
  THEN TrimEnd(SubSeq(value, 1, Len(value) - 1)) ELSE value

\* normalizeReturnTo
NormalizeReturnTo(returnTo, appOrigin) ==
  LET trimmed == TrimEnd(TrimStart(returnTo))
  IN IF trimmed = <<>> THEN <<"/">>
     ELSE IF trimmed[1] = "/" THEN trimmed
     ELSE IF trimmed[1] \notin Origins THEN <<"/">>
     ELSE IF trimmed[1] # appOrigin THEN <<"/">>
     ELSE IF Len(trimmed) = 1 THEN <<"/">> ELSE Tail(trimmed)

\* ------------------------------------------------------------ backend: db.ts

NotUsed == -1

\* saveOAuthState: upsert (used_at reset to NULL), then sweep expired and old used rows
SaveOAuthState(table, input, time) ==
  LET row == [state_hash |-> input.stateHash, code_verifier |-> input.codeVerifier,
              intent |-> input.intent, return_to |-> input.returnTo,
              expires_at |-> time + input.ttlSeconds, used_at |-> NotUsed]
      upserted == {r \in table : r.state_hash # input.stateHash} \cup {row}
  IN {r \in upserted :
        ~(r.expires_at < time \/ (r.used_at # NotUsed /\ r.used_at < time - OneDay))}

\* faulty variant: the WHERE clause without "used_at IS NULL"
Consumable_IgnoresUsedAt(row, stateHash, time) ==
  /\ row.state_hash = stateHash
  /\ row.expires_at > time

\* faulty variant: the WHERE clause without "expires_at > NOW()"
Consumable_IgnoresExpiry(row, stateHash, time) ==
  /\ row.state_hash = stateHash
  /\ row.used_at = NotUsed

\* consumeOAuthState, WHERE clause of the UPDATE
Consumable(row, stateHash, time) ==
  /\ row.state_hash = stateHash
  /\ row.used_at = NotUsed
  /\ row.expires_at > time

\* faulty variant: the UPDATE does not set used_at
ConsumeOAuthState_NoMark(table, stateHash, time) == table

\* consumeOAuthState: the table after the UPDATE
ConsumeOAuthState(table, stateHash, time) ==
  {IF Consumable(r, stateHash, time) THEN [r EXCEPT !.used_at = time] ELSE r : r \in table}

\* consumeOAuthState: RETURNING rows
ConsumeReturning(table, stateHash, time) ==
  {r \in table : Consumable(r, stateHash, time)}

\* saveGithubSession: upsert keyed by session_hash
SaveGithubSession(table, input, time) ==
  {r \in table : r.session_hash # input.sessionHash} \cup
  {[session_hash |-> input.sessionHash, github_user_id |-> input.githubUserId,
    github_login |-> input.githubLogin, access_token_cipher |-> input.accessTokenCipher,
    scopes_text |-> NormalizeScopes(input.scopes), last_used_at |-> time]}

GetGithubSession(table, sessionHash) == {r \in table : r.session_hash = sessionHash}

TouchGithubSession(table, sessionHash, time) ==
  {IF r.session_hash = sessionHash THEN [r EXCEPT !.last_used_at = time] ELSE r : r \in table}


\* ---------------------------------------------------- backend: validation.ts

MESSAGE_MAX == 200
FILE_COUNT_MAX == 100
FILE_BYTES_MAX == 200000
TOTAL_BYTES_MAX == 2000000

\* words matching /^[A-Za-z0-9_.-]{1,100}$/ among the words used here
OwnerRepoPattern(word) == word \in {"octocat", "hello-world"}
\* words matching BRANCH_PATTERN, free of ".." and of a leading "/"
BranchPattern(word) == word \in {"main"}
\* path segments matching [A-Za-z0-9_.-]+
SegmentPattern(word) ==
  word \in {"users", "list.http", ".eshttp", "demo", ".", "..", "__proto__"}

\* Buffer.byteLength(content, "utf8")
ByteLength(content) == IF content = "oversized" THEN FILE_BYTES_MAX + 1 ELSE 10
\* message.length
MessageLength(message) == IF message = "too long" THEN MESSAGE_MAX + 1
                          ELSE IF message = "" THEN 0 ELSE 4

PathRejected == [ok |-> FALSE, path |-> <<>>]

RECURSIVE DropEmpty(_)
DropEmpty(segments) ==
  IF segments = <<>> THEN <<>>
  ELSE IF Head(segments) = "" THEN DropEmpty(Tail(segments))
  ELSE <<Head(segments)>> \o DropEmpty(Tail(segments))

\* normalizeRelativePath; a path is the sequence of pieces between its slashes
NormalizeRelativePath(value) ==
  LET segments == DropEmpty(value)
  IN IF segments = <<>> THEN [ok |-> TRUE, path |-> <<".">>]
     ELSE IF \E k \in 1..Len(segments) : segments[k] \in {".", ".."} THEN PathRejected
     ELSE [ok |-> TRUE, path |-> segments]

NormalizeWorkspacePath(value) ==
  LET normalized == NormalizeRelativePath(value)
  IN IF ~normalized.ok \/ normalized.path = <<".">> THEN PathRejected ELSE normalized

NormalizeCommitFilePath(value) ==
  LET normalized == NormalizeRelativePath(value)
  IN IF ~normalized.ok \/ normalized.path = <<".">> THEN PathRejected
     ELSE IF \E k \in 1..Len(normalized.path) : ~SegmentPattern(normalized.path[k])
     THEN PathRejected
     ELSE normalized

InvalidPayload == [ok |-> FALSE, files |-> <<>>]

\* files[normalizedPath] = rawContent on the plain object files: an own property
\* is set or replaced, except under the key "__proto__", where the assignment goes
\* to the prototype setter, which ignores a string and leaves files as it was
AssignFile(files, path, content) ==
  IF path = <<"__proto__">> THEN files
  ELSE SelectSeq(files, LAMBDA f : f.path # path) \o <<[path |-> path, content |-> content]>>

RECURSIVE ValidateFiles(_, _, _)
\* the loop over Object.entries(target.files): <<ok, files>> with files as entries
ValidateFiles(entries, totalBytes, files) ==
  IF entries = <<>> THEN [ok |-> TRUE, files |-> files]
  ELSE LET entry == Head(entries)
           normalizedPath == NormalizeCommitFilePath(entry.path)
           fileBytes == ByteLength(entry.content)
       IN IF ~normalizedPath.ok THEN InvalidPayload
          ELSE IF fileBytes > FILE_BYTES_MAX THEN InvalidPayload
          ELSE IF totalBytes + fileBytes > TOTAL_BYTES_MAX THEN InvalidPayload
          ELSE ValidateFiles(Tail(entries), totalBytes + fileBytes,
                 AssignFile(files, normalizedPath.path, entry.content))

\* validateCommitPayload: ok = FALSE stands for the null result
ValidateCommitPayload(value) ==
  IF ~value.isObject THEN InvalidPayload
  ELSE IF value.owner = "" \/ ~OwnerRepoPattern(value.owner) THEN InvalidPayload
  ELSE IF value.repo = "" \/ ~OwnerRepoPattern(value.repo) THEN InvalidPayload
  ELSE IF value.branch = "" \/ ~BranchPattern(value.branch) THEN InvalidPayload
  ELSE IF value.workspacePath = <<>> THEN InvalidPayload
  ELSE IF ~NormalizeWorkspacePath(value.workspacePath).ok THEN InvalidPayload
  ELSE IF value.message = "" \/ MessageLength(value.message) > MESSAGE_MAX THEN InvalidPayload
  ELSE IF Len(value.files) = 0 \/ Len(value.files) > FILE_COUNT_MAX THEN InvalidPayload
  ELSE ValidateFiles(value.files, 0, <<>>)

GoodPayload ==
  [isObject |-> TRUE, owner |-> "octocat", repo |-> "hello-world", branch |-> "main",
   workspacePath |-> <<".eshttp", "demo">>, message |-> "sync",
   files |-> <<[path |-> <<"users", "list.http">>, content |-> "GET /users"]>>]

Payloads ==
  { GoodPayload,
    [GoodPayload EXCEPT !.isObject = FALSE],
    [GoodPayload EXCEPT !.owner = "bad owner"],
    [GoodPayload EXCEPT !.files = <<>>],
    [GoodPayload EXCEPT !.files = <<[path |-> <<"users", "..", "list.http">>,
                                     content |-> "GET /users"]>>],
    [GoodPayload EXCEPT !.files = <<[path |-> <<"", "users", "list.http">>,
                                     content |-> "oversized"]>>] }


\* ------------------------------------------- backend: validation on drawn inputs

\* longest raw file path drawn, in pieces between slashes
MaxSegments == 3

\* a call of validateCommitPayload on the drawn body
ValidateCommitPayloadCall ==
  /\ probe.fn = "validateCommitPayload"
  /\ ~probe.applied
  /\ probe' = [probe EXCEPT !.applied = TRUE, !.result = ValidateCommitPayload(probe.input)]
  /\ UNCHANGED <<repoVars, apiVars, calls, backendAccepts, requestIndex>>

NextPayload ==
  \/ ValidateCommitPayloadCall

\* ------------------------------------------------------ backend: webhook.ts

GITHUB_SIGNATURE_PREFIX == "sha256="

WebhookSecrets == {"secret", "wrong-secret", "other-secret"}
WebhookPayloads == {"ping", "push", "empty"}

\* createHmac("sha256", secret).update(payload).digest("hex"): the digest is named
\* by the pair it was computed from, so different pairs have different digests
HmacSha256Hex(payload, secret) == <<secret, payload>>

\* a header value is its text up to and including the first "=" and the rest
NoHeader == [prefix |-> "", digest |-> <<>>]

\* faulty variant: the signature is computed without the secret
ComputeGitHubWebhookSignature_NoSecret(payload, secret) ==
  [prefix |-> GITHUB_SIGNATURE_PREFIX, digest |-> HmacSha256Hex(payload, "secret")]

\* computeGitHubWebhookSignature
ComputeGitHubWebhookSignature(payload, secret) ==
  [prefix |-> GITHUB_SIGNATURE_PREFIX, digest |-> HmacSha256Hex(payload, secret)]

\* Buffer.from(text).byteLength of a header value: prefix, then 64 hex digits if any
HeaderByteLength(header) ==
  (CASE header.prefix = "sha256=" -> 7
     [] header.prefix = "sha1=" -> 5
     [] OTHER -> 0)
  + (IF header.digest = <<>> THEN 0 ELSE 64)

\* safeStringEqual: equal byte lengths, then timingSafeEqual
SafeStringEqual(left, right) ==
  IF HeaderByteLength(left) # HeaderByteLength(right) THEN FALSE
  ELSE left = right

\* verifyGitHubWebhookSignature
VerifyGitHubWebhookSignature(payload, secret, signatureHeader) ==
  IF signatureHeader.prefix # GITHUB_SIGNATURE_PREFIX THEN FALSE
  ELSE SafeStringEqual(ComputeGitHubWebhookSignature(payload, secret), signatureHeader)

\* the X-Hub-Signature-256 values a sender can present for a signature it computed:
\* the signature itself, with another prefix, cut after the prefix, or no header
PresentedHeaders(signature) ==
  {signature, [signature EXCEPT !.prefix = "sha1="],
   [signature EXCEPT !.digest = <<>>], NoHeader}

\* POST /api/github/webhook up to the signature check: a missing header is
\* answered 401 before the payload is read, a failed verification 401 as well
WebhookRequest ==
  /\ probe.fn = "verifyGitHubWebhookSignature"
  /\ ~probe.applied
  /\ LET verified == VerifyGitHubWebhookSignature(probe.payload, probe.secret, probe.header)
     IN probe' = [probe EXCEPT
                    !.applied = TRUE,
                    !.result = IF probe.header = NoHeader THEN FALSE ELSE verified,
                    !.status = IF probe.header = NoHeader THEN 401
                               ELSE IF ~verified THEN 401 ELSE 202]
  /\ UNCHANGED <<repoVars, apiVars, calls, backendAccepts, requestIndex>>

NextWebhook ==
  \/ WebhookRequest


\* ------------------------------------------------------ backend: handlers

NoCommitReq ==
  [method |-> "", origin |-> "", cookie |-> "", payload |-> GoodPayload, validSession |-> FALSE,
   scopes |-> {}, status |-> 0, error |-> "", reauthUrl |-> <<>>, remoteCalled |-> FALSE]

InitApi ==
  /\ oauthStates = {}
  /\ sessions = {}
  /\ now = 0
  /\ callbacks = [c \in Callbacks |->
                    [pc |-> "idle", state |-> "", codeVerifier |-> "", intent |-> "read",
                     returnTo |-> <<"/">>, found |-> "", exchanged |-> FALSE,
                     accessToken |-> "", sessionHash |-> "", cookie |-> "", status |-> 0,
                     error |-> "", location |-> <<>>]]
  /\ cookies = {}
  /\ lastCommitReq = NoCommitReq
  /\ grants = [t \in StateTokens |-> 0]
  /\ authCount = 0

Tick ==
  /\ now < MaxTime
  /\ now' = now + 1
  /\ UNCHANGED <<oauthStates, sessions, callbacks, cookies, lastCommitReq, grants, authCount>>

\* createAuthorizationUrl: a random state token, saved under its hash
CreateAuthorizationUrl(state, intent, returnTo) ==
  /\ authCount < MaxAuth
  /\ authCount' = authCount + 1
  /\ \E codeVerifier \in {"verifier"} :
       oauthStates' = SaveOAuthState(oauthStates,
                        [stateHash |-> Sha256Base64Url(state), codeVerifier |-> codeVerifier,
                         intent |-> intent,
                         returnTo |-> NormalizeReturnTo(returnTo, AppOrigin),
                         ttlSeconds |-> StateTtl], now)
  /\ grants' = [grants EXCEPT ![state] = 0]
  /\ UNCHANGED <<sessions, now, callbacks, cookies, lastCommitReq>>

\* callback handler up to consumeOAuthStateByRawState
CallbackConsume(c, method, code, state) ==
  /\ callbacks[c].pc = "idle"
  /\ IF method # "GET"
     THEN /\ callbacks' = [callbacks EXCEPT
                             ![c] = [@ EXCEPT !.pc = "done", !.status = 405,
                                              !.error = "Method not allowed"]]
          /\ UNCHANGED <<oauthStates, grants>>
     ELSE IF code = "" \/ state = ""
     THEN /\ callbacks' = [callbacks EXCEPT
                             ![c] = [@ EXCEPT !.pc = "done", !.status = 400,
                                              !.error = "Missing OAuth code or state"]]
          /\ UNCHANGED <<oauthStates, grants>>
     ELSE LET stateHash == Sha256Base64Url(state)
              before == {r \in oauthStates : r.state_hash = stateHash}
              rows == ConsumeReturning(oauthStates, stateHash, now)
              seen == [callbacks[c] EXCEPT
                         !.state = state,
                         !.found = IF before = {} THEN "missing"
                                   ELSE IF \E r \in before : r.used_at # NotUsed THEN "used"
                                   ELSE IF \E r \in before : r.expires_at <= now THEN "expired"
                                   ELSE "live"]
          IN /\ oauthStates' = ConsumeOAuthState(oauthStates, stateHash, now)
             /\ IF rows = {}
                THEN /\ callbacks' = [callbacks EXCEPT
                                        ![c] = [seen EXCEPT
                                                  !.pc = "done", !.status = 400,
                                                  !.error = "Invalid or expired OAuth state"]]
                     /\ UNCHANGED grants
                ELSE LET consumed == CHOOSE r \in rows : TRUE
                     IN /\ callbacks' = [callbacks EXCEPT
                                           ![c] = [seen EXCEPT
                                                     !.pc = "exchange",
                                                     !.codeVerifier = consumed.code_verifier,
                                                     !.intent = consumed.intent,
                                                     !.returnTo = consumed.return_to]]
                        /\ grants' = [grants EXCEPT ![state] = @ + 1]
  /\ UNCHANGED <<sessions, now, cookies, lastCommitReq, authCount>>

\* exchangeGitHubCodeForToken and fetchGitHubUser: either may throw
CallbackExchange(c) ==
  /\ callbacks[c].pc = "exchange"
  /\ \/ \E token \in AccessTokens :
          callbacks' = [callbacks EXCEPT
                          ![c] = [@ EXCEPT !.pc = "session", !.exchanged = TRUE,
                                           !.accessToken = token]]
     \/ callbacks' = [callbacks EXCEPT
                        ![c] = [@ EXCEPT !.pc = "done", !.exchanged = TRUE, !.status = 500,
                                         !.error = "OAuth callback failed"]]
  /\ UNCHANGED <<oauthStates, sessions, now, cookies, lastCommitReq, grants, authCount>>

\* appendAuthResult: path, query and hash of the parsed return target
AppendAuthResult(returnTo, intent) ==
  (IF returnTo # <<>> /\ returnTo[1] = "/" THEN returnTo ELSE <<"/">>)
    \o <<IF intent = "write" THEN "?github_write=1" ELSE "?github_read=1">>

\* setCookie: the attributes of the Set-Cookie header
SetCookie(value, secure) ==
  [value |-> value, path |-> "/", httpOnly |-> TRUE, sameSite |-> "Lax", secure |-> secure]

\* faulty variant: the access token is stored as it is
SessionRowInput_Plaintext(sessionToken, accessToken) ==
  [sessionHash |-> Sha256Base64Url(sessionToken),
   githubUserId |-> "1", githubLogin |-> "octocat",
   accessTokenCipher |-> accessToken,
   scopes |-> GrantedScopes(accessToken)]

\* createSession: the row createSession saves for a session token
SessionRowInput(sessionToken, accessToken) ==
  [sessionHash |-> Sha256Base64Url(sessionToken),
   githubUserId |-> "1", githubLogin |-> "octocat",
   accessTokenCipher |-> EncryptSecret(accessToken, SessionEncryptionKey),
   scopes |-> GrantedScopes(accessToken)]

\* createSession, then the redirect
CallbackCreateSession(c) ==
  /\ callbacks[c].pc = "session"
  /\ \E sessionToken \in SessionTokens \ {k.value : k \in cookies} :
       LET input == SessionRowInput(sessionToken, callbacks[c].accessToken)
       IN /\ sessions' = SaveGithubSession(sessions, input, now)
          /\ cookies' = cookies \cup {SetCookie(sessionToken, TRUE)}
          /\ callbacks' = [callbacks EXCEPT
                             ![c] = [@ EXCEPT
                                       !.pc = "done", !.status = 302,
                                       !.sessionHash = input.sessionHash,
                                       !.cookie = sessionToken,
                                       !.location = AppendAuthResult(callbacks[c].returnTo,
                                                                     callbacks[c].intent)]]
  /\ UNCHANGED <<oauthStates, now, lastCommitReq, grants, authCount>>

\* requireSameOrigin: "" is a missing header, an unparsable value throws in new URL
RequireSameOrigin(origin, expectedOrigin) ==
  IF origin = "" THEN FALSE
  ELSE IF origin \notin Origins THEN FALSE
  ELSE origin = expectedOrigin

NoSession == [found |-> FALSE, scopes |-> {}, accessToken |-> ""]

\* readSession without the touch: cookie -> hash -> row -> decrypted token
ReadSession(table, cookie) ==
  IF cookie = "" THEN NoSession
  ELSE LET rows == GetGithubSession(table, Sha256Base64Url(cookie))
       IN IF rows = {} THEN NoSession
          ELSE LET row == CHOOSE r \in rows : TRUE
                   accessToken == DecryptSecret(row.access_token_cipher, SessionEncryptionKey)
               IN IF accessToken = DecryptFailed THEN NoSession
                  ELSE [found |-> TRUE, scopes |-> ParseScopes(row.scopes_text),
                        accessToken |-> accessToken]

\* authorizePath("write", returnTo) behind the request origin
ReauthUrl(origin, returnTo) == <<origin, "/api/auth/github/start", "write", returnTo>>

\* POST /api/github/commit
CommitHandler(method, origin, cookie, payload, referer) ==
  LET session == ReadSession(sessions, cookie)
      request == [NoCommitReq EXCEPT !.method = method, !.origin = origin, !.cookie = cookie,
                                     !.payload = payload]
  IN IF method # "POST"
     THEN /\ lastCommitReq' = [request EXCEPT !.status = 405, !.error = "Method not allowed"]
          /\ UNCHANGED sessions
     ELSE IF ~RequireSameOrigin(origin, AppOrigin)
     THEN /\ lastCommitReq' = [request EXCEPT
                                 !.status = 403,
                                 !.error = "Cross-origin commit requests are not allowed"]
          /\ UNCHANGED sessions
     ELSE IF ~session.found
     THEN /\ lastCommitReq' = [request EXCEPT !.status = 401,
                                              !.error = "Not authenticated with GitHub"]
          /\ UNCHANGED sessions
     ELSE /\ sessions' = TouchGithubSession(sessions, Sha256Base64Url(cookie), now)
          /\ IF ~HasWriteScope(session.scopes)
             THEN LET refererBased == NormalizeReturnTo(referer, AppOrigin)
                      returnTo == IF refererBased = <<"/">>
                                  THEN NormalizeReturnTo(<<>>, AppOrigin)
                                  ELSE refererBased
                  IN lastCommitReq' = [request EXCEPT
                                         !.validSession = TRUE, !.scopes = session.scopes,
                                         !.status = 403, !.error = "WRITE_SCOPE_REQUIRED",
                                         !.reauthUrl = ReauthUrl(AppOrigin, returnTo)]
             ELSE IF ~ValidateCommitPayload(payload).ok
             THEN lastCommitReq' = [request EXCEPT
                                      !.validSession = TRUE, !.scopes = session.scopes,
                                      !.status = 400, !.error = "Invalid commit payload"]
             ELSE \E remoteOk \in BOOLEAN :
                    lastCommitReq' = [request EXCEPT
                                        !.validSession = TRUE, !.scopes = session.scopes,
                                        !.remoteCalled = TRUE,
                                        !.status = IF remoteOk THEN 200 ELSE 500,
                                        !.error = IF remoteOk THEN "" ELSE "Commit failed"]

CommitRequest(method, origin, cookie, payload, referer) ==
  /\ CommitHandler(method, origin, cookie, payload, referer)
  /\ UNCHANGED <<oauthStates, now, callbacks, cookies, grants, authCount>>

RepoIdle == UNCHANGED <<repoVars, auxVars>>

\* the OAuth endpoints: start, callback, and the database clock
NextApi ==
  \/ Tick /\ RepoIdle
  \/ \E state \in StateTokens, intent \in Intents, returnTo \in { <<"/", "ws">> } :
       CreateAuthorizationUrl(state, intent, returnTo) /\ RepoIdle
  \/ \E c \in Callbacks, method \in {"GET", "POST"}, code \in {"", "code"},
        state \in StateTokens \cup {""} :
       CallbackConsume(c, method, code, state) /\ RepoIdle
  \/ \E c \in Callbacks : CallbackExchange(c) /\ RepoIdle
  \/ \E c \in Callbacks : CallbackCreateSession(c) /\ RepoIdle

\* the commit endpoint behind completed logins
NextCommitApi ==
  \/ \E intent \in Intents, returnTo \in { <<"/", "ws">> } :
       CreateAuthorizationUrl("st1", intent, returnTo) /\ RepoIdle
  \/ CallbackConsume("cb1", "GET", "code", "st1") /\ RepoIdle
  \/ CallbackExchange("cb1") /\ RepoIdle
  \/ CallbackCreateSession("cb1") /\ RepoIdle
  \/ \E method \in {"GET", "POST"}, origin \in Origins \cup {"", "not a url"},
        cookie \in SessionTokens \cup {""}, payload \in Payloads,
        referer \in {<<>>, <<"https://app.example", "/", "ws">>} :
       CommitRequest(method, origin, cookie, payload, referer) /\ RepoIdle

\* --------------------------------------- resolveStorageOption on drawn records

\* the import records resolveStorageOption is called on; "" is an absent storageKind
ResolveInputs ==
  {[ImportRecord("import-1", runtime, storage, storageKind) EXCEPT
      !.hasLocator = hasLocator, !.pendingGitPaths = pending] :
     runtime \in {"web", "tauri"}, storage \in {"filesystem", "indexeddb"},
     storageKind \in {"direct", "git", "github", ""}, hasLocator \in BOOLEAN,
     pending \in {<<>>, <<"users/List.http">>, <<"users/List.http", "users/Get.http">>}}

InitResolve ==
  /\ InitRepo
  /\ InitApi
  /\ calls = [c \in Callers |-> IdleCall]
  /\ backendAccepts = FALSE
  /\ requestIndex = {}
  /\ probe \in {[fn |-> "resolveStorageOption", input |-> importRecord, count |-> 0,
                 first |-> WebDirectStorageOption, second |-> WebDirectStorageOption] :
                  importRecord \in ResolveInputs}

\* a first and a second call of resolveStorageOption on the same record
ResolveStorageOptionCall ==
  /\ probe.fn = "resolveStorageOption"
  /\ probe.count < 2
  /\ probe' = IF probe.count = 0
              THEN [probe EXCEPT !.count = 1, !.first = ResolveStorageOption(probe.input)]
              ELSE [probe EXCEPT !.count = 2, !.second = ResolveStorageOption(probe.input)]
  /\ UNCHANGED <<repoVars, apiVars, calls, backendAccepts, requestIndex>>

NextResolve ==
  \/ ResolveStorageOptionCall

SpecResolve == InitResolve /\ [][NextResolve]_vars

\* ------------------------------------------- backend: github.ts, remote scan

\* maxRepos: the number of repositories listUserRepos hands to the scan
MaxRepos == 2

\* a tree entry path is the sequence of the pieces between its slashes
TreeEntry(path, type, sha) == [path |-> path, type |-> type, sha |-> sha]

\* the trees a default branch can have; the order of a tree's entries has no effect
\* on the snapshots, so a tree is the set of its entries
Trees ==
  LET ApiListBlob  == TreeEntry(<<".eshttp", "workspaces", "api", "users", "List.http">>, "blob", "sha-list")
      ApiUsersTree == TreeEntry(<<".eshttp", "workspaces", "api", "users">>, "tree", "sha-users")
      ApiUsersIcon == TreeEntry(<<".eshttp", "workspaces", "api", "users", "icon.svg">>, "blob", "sha-icon")
      ApiRootBlob  == TreeEntry(<<".eshttp", "workspaces", "api", "Root.http">>, "blob", "sha-root")
      ShopGetBlob  == TreeEntry(<<".eshttp", "workspaces", "shop", "orders", "Get.http">>, "blob", "sha-get")
      TopLevelBlob == TreeEntry(<<".eshttp", "workspaces", "Top.http">>, "blob", "sha-top")
      DocsBlob     == TreeEntry(<<"docs", "Readme.http">>, "blob", "sha-docs")
  IN { {ApiListBlob, ApiUsersTree, ApiUsersIcon},
       {ApiListBlob, ShopGetBlob, DocsBlob},
       {ApiRootBlob, TopLevelBlob},
       {DocsBlob} }

\* path.endsWith(".http")
EndsWithHttp(path) ==
  path # <<>> /\ path[Len(path)] \in {"List.http", "Root.http", "Get.http", "Top.http", "Readme.http"}

\* listWorkspaceRoots: the set of the roots (the code returns them sorted); an entry
\* counts when its path starts with ".eshttp/workspaces/" and has a piece after it
ListWorkspaceRoots(tree) ==
  {SubSeq(entry.path, 1, 3) :
     entry \in {e \in tree : /\ e.type = "blob"
                              /\ EndsWithHttp(e.path)
                              /\ Len(e.path) >= 3
                              /\ SubSeq(e.path, 1, 2) = <<".eshttp", "workspaces">>}}

NotInWorkspace == <<"null">>

\* relativeToWorkspace
RelativeToWorkspace(workspacePath, fullPath) ==
  IF fullPath = workspacePath THEN <<".">>
  ELSE IF Len(fullPath) > Len(workspacePath)
          /\ SubSeq(fullPath, 1, Len(workspacePath)) = workspacePath
       THEN SubSeq(fullPath, Len(workspacePath) + 1, Len(fullPath))
       ELSE NotInWorkspace

\* dirname of a relative path
Dirname(path) == IF Len(path) <= 1 THEN <<".">> ELSE SubSeq(path, 1, Len(path) - 1)

\* basename
Basename(path) == path[Len(path)]

NoSnapshot == [found |-> FALSE]

\* buildWorkspaceSnapshot; collections and requests are the sets of the elements of
\* the sorted arrays the code builds
BuildWorkspaceSnapshot(repo, workspacePath, tree) ==
  LET relevantFiles ==
        {e \in tree : e.type = "blob"
                      /\ RelativeToWorkspace(workspacePath, e.path) # NotInWorkspace}
      requestFiles ==
        {e \in relevantFiles :
           /\ EndsWithHttp(e.path)
           /\ RelativeToWorkspace(workspacePath, e.path) # <<".">>
           /\ NormalizeRelativePath(Dirname(RelativeToWorkspace(workspacePath, e.path))).ok}
      CollectionPath(e) ==
        NormalizeRelativePath(Dirname(RelativeToWorkspace(workspacePath, e.path))).path
      Icons(collectionPath) ==
        {e \in relevantFiles : e.path = workspacePath \o collectionPath \o <<"icon.svg">>}
      collections ==
        {[relativePath |-> collectionPath,
          name |-> collectionPath,
          requests |-> {[fileName |-> Basename(e.path), text |-> <<"text of", e.sha>>] :
                          e \in {f \in requestFiles : CollectionPath(f) = collectionPath}},
          iconSvg |-> {<<"text of", e.sha>> : e \in Icons(collectionPath)}] :
           collectionPath \in {CollectionPath(e) : e \in requestFiles}}
  IN IF relevantFiles = {} \/ collections = {} THEN NoSnapshot
     ELSE [found |-> TRUE, owner |-> repo.owner, repo |-> repo.name,
           branch |-> repo.default_branch, workspacePath |-> workspacePath,
           workspaceName |-> Basename(workspacePath), collections |-> collections]

\* the snapshots one non-truncated tree gives, as the set pushed for its roots
SnapshotsOfTree(repo, tree) ==
  {BuildWorkspaceSnapshot(repo, workspacePath, tree) :
     workspacePath \in ListWorkspaceRoots(tree)} \ {NoSnapshot}

\* faulty variant: a truncated tree is scanned like a complete one
ScanRepo_TruncatedScanned(snapshots, repo, response) ==
  snapshots \cup SnapshotsOfTree(repo, response.tree)

\* extractWorkspacesFromRepos, one iteration of the loop over repos
ScanRepo(snapshots, repo, response) ==
  IF response.truncated THEN snapshots
  ELSE snapshots \cup SnapshotsOfTree(repo, response.tree)

\* the k-th repository of the list handed to the scan
GitHubRepo(k) ==
  [owner |-> "octocat", name |-> <<"alpha", "beta", "gamma", "delta">>[k],
   default_branch |-> "main"]

\* TreeResponses: what GitHub answers to the tree request of one repository
InitScan ==
  LET TreeResponses ==
        {[ok |-> TRUE, truncated |-> truncated, tree |-> tree] :
           truncated \in BOOLEAN, tree \in Trees}
        \cup {[ok |-> FALSE, truncated |-> FALSE, tree |-> {}]}
  IN /\ InitRepo
     /\ InitApi
     /\ calls = [c \in Callers |-> IdleCall]
     /\ backendAccepts = FALSE
     /\ requestIndex = {}
     /\ probe \in {[fn |-> "extractWorkspacesFromRepos", responses |-> responses,
                    index |-> 0, pc |-> "loop", snapshots |-> {}] :
                     responses \in UNION {[1..n -> TreeResponses] : n \in 1..MaxRepos}}

\* the loop body for the next repository: a failed tree request throws
ExtractWorkspacesFromReposStep ==
  /\ probe.fn = "extractWorkspacesFromRepos"
  /\ probe.pc = "loop"
  /\ probe.index < Len(probe.responses)
  /\ LET k == probe.index + 1
         response == probe.responses[k]
     IN probe' = IF ~response.ok THEN [probe EXCEPT !.pc = "threw"]
                 ELSE [probe EXCEPT !.index = k,
                                    !.snapshots = ScanRepo(@, GitHubRepo(k), response)]
  /\ UNCHANGED <<repoVars, apiVars, calls, backendAccepts, requestIndex>>

\* the loop is over: the snapshots are returned
ExtractWorkspacesFromReposReturn ==
  /\ probe.fn = "extractWorkspacesFromRepos"
  /\ probe.pc = "loop"
  /\ probe.index = Len(probe.responses)
  /\ probe' = [probe EXCEPT !.pc = "returned"]
  /\ UNCHANGED <<repoVars, apiVars, calls, backendAccepts, requestIndex>>

NextScan ==
  \/ ExtractWorkspacesFromReposStep
  \/ ExtractWorkspacesFromReposReturn

SpecScan == InitScan /\ [][NextScan]_vars

\* ------------------------------------------------------- loadWorkspaceTree

\* number of loadWorkspaceTree calls
MaxLoads == 2

\* loadWorkspaceTree: the index built by the loop over the imports.
\* loadReadonlyTauriTree / loadReadonlyWebTree give the requestIndex entries of the
\* imported folder, none when the path or handle is missing; loadEditableTree gives
\* those of the cached snapshot
LoadedIndex(importRecords, caches, files) ==
  LET LoadReadonlyTree(importRecord, folder) ==
        IF ~importRecord.hasLocator THEN {}
        ELSE {[mode |-> "readonly", importId |-> importRecord.id,
               requestRelativePath |-> p] : p \in DOMAIN folder}
      LoadEditableTree(cache, importRecord) ==
        IF ~cache.present THEN {}
        ELSE {[mode |-> "editable", importId |-> importRecord.id,
               requestRelativePath |-> p] : p \in DOMAIN cache.texts}
  IN UNION {LoadReadonlyTree(importRecords[i], files[i])
              \cup LoadEditableTree(caches[i], importRecords[i]) : i \in DOMAIN importRecords}

\* loadWorkspaceTree: the returned nodes, as (mode, importId, syncState)
LoadedTrees(importRecords, caches, queue) ==
  {[mode |-> "readonly", importId |-> i, syncState |-> BuildSyncStatus(i, queue)] :
     i \in {j \in DOMAIN importRecords : importRecords[j].hasLocator}}
  \cup {[mode |-> "editable", importId |-> i, syncState |-> BuildSyncStatus(i, queue)] :
          i \in {j \in DOMAIN importRecords : caches[j].present}}

InitTree ==
  /\ InitLoop
  /\ InitApi
  /\ calls = [c \in Callers |-> IdleCall]
  /\ backendAccepts = FALSE
  /\ requestIndex = {}
  /\ probe = [fn |-> "loadWorkspaceTree", loads |-> 0, trees |-> {}]

\* faulty variant: the tree load also promotes every import to an editable snapshot
LoadWorkspaceTree_PersistsSnapshot ==
  /\ probe.fn = "loadWorkspaceTree"
  /\ probe.loads < MaxLoads
  /\ cacheWorkspace' = [i \in DOMAIN imports |->
                          EnsureEditableWorkspace(cacheWorkspace[i], disk[i])]
  /\ requestIndex' = LoadedIndex(imports, cacheWorkspace', disk)
  /\ probe' = [probe EXCEPT !.loads = @ + 1,
                            !.trees = LoadedTrees(imports, cacheWorkspace',
                                                  ListSyncQueue(syncQueue))]
  /\ UNCHANGED <<imports, syncQueue, disk, clock, usedIds, flush, commit, commitCalls,
                 attempts, saves, history, applied, flushedPaths, apiVars, calls,
                 backendAccepts>>

\* loadWorkspaceTree: the three indexes are cleared and filled again from
\* listImports, listSyncQueue, the readonly folders and getCacheWorkspace
LoadWorkspaceTree ==
  /\ probe.fn = "loadWorkspaceTree"
  /\ probe.loads < MaxLoads
  /\ requestIndex' = LoadedIndex(imports, cacheWorkspace, disk)
  /\ probe' = [probe EXCEPT !.loads = @ + 1,
                            !.trees = LoadedTrees(imports, cacheWorkspace,
                                                  ListSyncQueue(syncQueue))]
  /\ UNCHANGED <<repoVars, apiVars, calls, backendAccepts>>

\* saveRequestText on a request found in the request index (either mode)
SaveIndexedRequestText(i, p, text) ==
  /\ \E entry \in requestIndex : entry.importId = i /\ entry.requestRelativePath = p
  /\ SaveRequestText(i, p, text)

\* what is saved does not matter to the tree load, so every save writes the same text
NextTree ==
  \/ \E i \in LoopImports, p \in Paths :
       SaveIndexedRequestText(i, p, "v1") /\ ApiIdle
  \/ \E f \in Flushers : FlushSyncQueue(f) /\ ApiIdle
  \/ \E f \in Flushers : FlushItem(f) /\ ApiIdle
  \/ LoadWorkspaceTree

SpecTree == InitTree /\ [][NextTree]_vars

\* --------------------------------------------- returnTo through the OAuth flow

\* the origin the browser goes to for a Location header answered by the callback
\* endpoint, which is served under appOrigin: a value starting with two slashes is
\* scheme-relative and names its own host, any other path stays on the origin
LocationOrigin(location, appOrigin) ==
  IF Len(location) >= 3 /\ location[1] = "/" /\ location[2] = "/"
     /\ location[3] \notin {"/", "?github_read=1", "?github_write=1"}
  THEN IF location[3] = "app.example" THEN "https://app.example"
       ELSE IF location[3] = "evil.example" THEN "https://evil.example"
       ELSE "https://other.example"
  ELSE appOrigin

\* the returnTo values the flow is started with: a path (the text as pieces), an
\* absolute URL of either origin, a bare word, each also with white space before
\* or after it
InitReturnTo ==
  LET ReturnToPaths ==
        { <<>>, <<"/">>, <<"/", "ws">>, <<"/", "ws", "/", "list">>,
          <<"/", "/", "evil.example">>, <<"/", "/", "evil.example", "/", "ws">> }
      plain == ReturnToPaths
               \cup {<<origin>> \o path : origin \in Origins, path \in ReturnToPaths}
               \cup {<<"ws">>}
      ReturnToInputs ==
        plain \cup {<<" ">> \o value : value \in plain}
              \cup {value \o <<" ">> : value \in plain}
  IN /\ InitRepo
     /\ InitApi
     /\ calls = [c \in Callers |-> IdleCall]
     /\ backendAccepts = FALSE
     /\ requestIndex = {}
     /\ probe \in {[fn |-> "returnTo", pc |-> "start", input |-> returnTo,
                    intent |-> intent, returnTo |-> <<>>, location |-> <<>>] :
                     returnTo \in ReturnToInputs, intent \in Intents}

\* the start endpoint: normalizeReturnTo, then the value is persisted with the state
StartHandler ==
  /\ probe.fn = "returnTo"
  /\ probe.pc = "start"
  /\ probe' = [probe EXCEPT !.pc = "callback",
                            !.returnTo = NormalizeReturnTo(probe.input, AppOrigin)]
  /\ UNCHANGED <<repoVars, apiVars, calls, backendAccepts, requestIndex>>

\* the callback endpoint's final redirect: Location is appendAuthResult(returnTo)
CallbackRedirect ==
  /\ probe.fn = "returnTo"
  /\ probe.pc = "callback"
  /\ probe' = [probe EXCEPT !.pc = "redirected",
                            !.location = AppendAuthResult(probe.returnTo, probe.intent)]
  /\ UNCHANGED <<repoVars, apiVars, calls, backendAccepts, requestIndex>>

NextReturnTo ==
  \/ StartHandler
  \/ CallbackRedirect

SpecReturnTo == InitReturnTo /\ [][NextReturnTo]_vars

\* ------------------------------------- backend: github.ts, commitWorkspaceFiles

\* commit shas: "c0" is the branch head before the call, "c1" the commit the call
\* creates, and "cx" a commit somebody else pushes on top of the head

\* joinRepoPath; the result is rejected or a path
JoinRepoPath(root, child) ==
  LET normalizedRoot == NormalizeRelativePath(root)
      normalizedChild == NormalizeRelativePath(child)
  IN IF ~normalizedRoot.ok \/ ~normalizedChild.ok THEN PathRejected
     ELSE IF normalizedRoot.path = <<".">> THEN normalizedChild
     ELSE IF normalizedChild.path = <<".">> THEN normalizedRoot
     ELSE [ok |-> TRUE, path |-> normalizedRoot.path \o normalizedChild.path]

\* faulty variant: the ref update is forced
UpdateRefRequest_Forced(sha) == [sha |-> sha, force |-> TRUE]

\* the body of the PATCH on refs/heads/<branch>
UpdateRefRequest(sha) == [sha |-> sha, force |-> FALSE]

\* GitHub's answer to the ref update: without force only a fast-forward is taken,
\* that is, the new commit's parent must be the current head
RefUpdateAccepted(head, parentOfNew, request) == request.force \/ head = parentOfNew

\* the calls: input.files has up to two entries with different keys, one of them
\* with a path that leaves the workspace
InitRemoteCommit ==
  LET CommitFileEntries ==
        { [path |-> <<"users", "List.http">>, text |-> "GET /users"],
          [path |-> <<"users", "Get.http">>, text |-> "GET /users/1"],
          [path |-> <<"..", "secrets.http">>, text |-> "GET /secrets"] }
      CommitFileLists ==
        {<<>>} \cup {<<e>> : e \in CommitFileEntries}
        \cup {<<pair[1], pair[2]>> :
                 pair \in {q \in CommitFileEntries \X CommitFileEntries : q[1] # q[2]}}
      CommitWorkspacePaths == { <<".eshttp", "workspaces", "api">>, <<"..", "api">>, <<>> }
  IN /\ InitRepo
     /\ InitApi
     /\ calls = [c \in Callers |-> IdleCall]
     /\ backendAccepts = FALSE
     /\ requestIndex = {}
     /\ probe \in {[fn |-> "commitWorkspaceFiles", pc |-> "start",
                    workspacePath |-> workspacePath, entries |-> entries,
                    head |-> "c0", refSha |-> "", baseTree |-> "",
                    treeEntries |-> <<>>, tree |-> <<>>, treeCreated |-> FALSE,
                    commitParents |-> <<>>, commitCreated |-> FALSE,
                    refUpdated |-> FALSE] :
                     workspacePath \in CommitWorkspacePaths, entries \in CommitFileLists}

RemoteIdle == UNCHANGED <<repoVars, apiVars, calls, backendAccepts, requestIndex>>

InCommitWorkspaceFiles(pc) == probe.fn = "commitWorkspaceFiles" /\ probe.pc = pc

\* the checks before the first request
CommitWorkspaceFilesCheck ==
  /\ InCommitWorkspaceFiles("start")
  /\ probe' = [probe EXCEPT !.pc =
                 IF ~NormalizeRelativePath(probe.workspacePath).ok THEN "threw"
                 ELSE IF probe.entries = <<>> THEN "threw"
                 ELSE "ref"]
  /\ RemoteIdle

\* GET git/ref/heads/<branch>
GetRef(ok) ==
  /\ InCommitWorkspaceFiles("ref")
  /\ probe' = IF ok THEN [probe EXCEPT !.pc = "parent", !.refSha = probe.head]
              ELSE [probe EXCEPT !.pc = "threw"]
  /\ RemoteIdle

\* GET git/commits/<ref.object.sha>
GetParentCommit(ok) ==
  /\ InCommitWorkspaceFiles("parent")
  /\ probe' = IF ok THEN [probe EXCEPT !.pc = "blobs", !.baseTree = probe.refSha]
              ELSE [probe EXCEPT !.pc = "threw"]
  /\ RemoteIdle

\* one iteration of the loop over the entries: path checks, then POST git/blobs
CreateBlob(ok) ==
  /\ InCommitWorkspaceFiles("blobs")
  /\ Len(probe.treeEntries) < Len(probe.entries)
  /\ LET entry == probe.entries[Len(probe.treeEntries) + 1]
         normalizedPath == NormalizeRelativePath(entry.path)
         fullPath == JoinRepoPath(NormalizeRelativePath(probe.workspacePath).path,
                                  normalizedPath.path)
     IN probe' = IF ~normalizedPath.ok THEN [probe EXCEPT !.pc = "threw"]
                 ELSE IF ~fullPath.ok \/ fullPath.path = <<".">>
                 THEN [probe EXCEPT !.pc = "threw"]
                 ELSE IF ~ok THEN [probe EXCEPT !.pc = "threw"]
                 ELSE [probe EXCEPT !.treeEntries =
                         Append(@, [path |-> fullPath.path, mode |-> "100644",
                                    type |-> "blob", sha |-> <<"blob", entry.text>>])]
  /\ RemoteIdle

\* POST git/trees with base_tree and the entries of every blob
CreateTree(ok) ==
  /\ InCommitWorkspaceFiles("blobs")
  /\ Len(probe.treeEntries) = Len(probe.entries)
  /\ probe' = IF ok THEN [probe EXCEPT !.pc = "commit", !.tree = probe.treeEntries,
                                       !.treeCreated = TRUE]
              ELSE [probe EXCEPT !.pc = "threw"]
  /\ RemoteIdle

\* POST git/commits with parents: [ref.object.sha]
CreateCommit(ok) ==
  /\ InCommitWorkspaceFiles("commit")
  /\ probe' = IF ok THEN [probe EXCEPT !.pc = "updateRef",
                                       !.commitParents = <<probe.refSha>>,
                                       !.commitCreated = TRUE]
              ELSE [probe EXCEPT !.pc = "threw"]
  /\ RemoteIdle

\* PATCH git/refs/heads/<branch>, then return { commitSha }
UpdateRef(ok) ==
  /\ InCommitWorkspaceFiles("updateRef")
  /\ probe' = IF ok /\ RefUpdateAccepted(probe.head, probe.commitParents[1],
                                         UpdateRefRequest("c1"))
              THEN [probe EXCEPT !.pc = "returned", !.head = "c1",
                                 !.refUpdated = TRUE]
              ELSE [probe EXCEPT !.pc = "threw"]
  /\ RemoteIdle

\* somebody else pushes to the branch while the call is running
BranchMoves ==
  /\ probe.fn = "commitWorkspaceFiles"
  /\ probe.pc \notin {"start", "returned", "threw"}
  /\ probe.head = "c0"
  /\ probe' = [probe EXCEPT !.head = "cx"]
  /\ RemoteIdle

NextRemoteCommit ==
  \/ CommitWorkspaceFilesCheck
  \/ \E ok \in BOOLEAN : GetRef(ok)
  \/ \E ok \in BOOLEAN : GetParentCommit(ok)
  \/ \E ok \in BOOLEAN : CreateBlob(ok)
  \/ \E ok \in BOOLEAN : CreateTree(ok)
  \/ \E ok \in BOOLEAN : CreateCommit(ok)
  \/ \E ok \in BOOLEAN : UpdateRef(ok)
  \/ BranchMoves

SpecRemoteCommit == InitRemoteCommit /\ [][NextRemoteCommit]_vars

\* ------------------------------------------------------------ specifications

Init ==
  /\ InitRepo
  /\ InitApi
  /\ calls = [c \in Callers |-> IdleCall]
  /\ probe = [fn |-> "none"]
  /\ backendAccepts = FALSE
  /\ requestIndex = {}
Spec == Init /\ [][NextRepo]_vars
SpecApi == Init /\ [][NextApi]_vars
SpecCommitApi == Init /\ [][NextCommitApi]_vars

InitDesktop ==
  /\ InitLoop
  /\ InitApi
  /\ calls = [c \in Callers |-> IdleCall]
  /\ probe = [fn |-> "none"]
  /\ backendAccepts = FALSE
  /\ requestIndex = {}
SpecCalls == InitDesktop /\ [][NextCalls]_vars
SpecLoop == InitDesktop /\ [][NextLoop]_vars

\* the request bodies validateCommitPayload is called on: one drawn file, a good file
\* followed by a drawn one, and the malformed envelopes. A raw path is drawn from
\* names, "..", the empty piece of a doubled or leading slash, a name outside the
\* pattern, and the name of the prototype accessor
InitPayloadCall ==
  LET PayloadSegments == {"users", "list.http", "..", "", "my file", "__proto__"}
      RawPaths == UNION {[1..n -> PayloadSegments] : n \in 1..MaxSegments}
      RawContents == {"GET /users", "  GET /users  ", "oversized"}
      PayloadInputs ==
        {[GoodPayload EXCEPT !.files = <<[path |-> path, content |-> content]>>] :
           path \in RawPaths, content \in RawContents}
        \cup {[GoodPayload EXCEPT !.files = <<GoodPayload.files[1],
                                              [path |-> path, content |-> "GET /users"]>>] :
                path \in RawPaths}
        \cup Payloads
  IN /\ InitRepo
     /\ InitApi
     /\ calls = [c \in Callers |-> IdleCall]
     /\ backendAccepts = FALSE
     /\ requestIndex = {}
     /\ probe \in {[fn |-> "validateCommitPayload", input |-> value, applied |-> FALSE,
                    result |-> InvalidPayload] : value \in PayloadInputs}
SpecPayload == InitPayloadCall /\ [][NextPayload]_vars

InitWebhookCall ==
  /\ InitRepo
  /\ InitApi
  /\ calls = [c \in Callers |-> IdleCall]
  /\ backendAccepts = FALSE
  /\ requestIndex = {}
  /\ probe \in {[fn |-> "verifyGitHubWebhookSignature",
                 signedPayload |-> signedPayload, signedSecret |-> signedSecret,
                 payload |-> payload, secret |-> secret, header |-> header,
                 applied |-> FALSE, result |-> FALSE, status |-> 0] :
                  signedPayload \in WebhookPayloads, signedSecret \in WebhookSecrets,
                  payload \in WebhookPayloads, secret \in WebhookSecrets,
                  header \in UNION {PresentedHeaders(ComputeGitHubWebhookSignature(p, k)) :
                                      p \in WebhookPayloads, k \in WebhookSecrets}}
SpecWebhook == InitWebhookCall /\ [][NextWebhook]_vars

\* the backends recover: from here on permission is granted and writes succeed
BackendRecovers ==
  /\ ~backendAccepts
  /\ backendAccepts' = TRUE
  /\ UNCHANGED <<repoVars, apiVars, calls, probe, requestIndex>>

\* a flush iteration against the backends as they are
FlushItemOnBackend(f) ==
  \E granted \in BOOLEAN, writeOk \in BOOLEAN :
    /\ backendAccepts => (granted /\ writeOk)
    /\ FlushIteration(f, granted, writeOk)

\* the sync loop with backends that fail for a while and then recover; what is
\* saved does not matter to the loop, so every save writes the same text
NextLoopFair ==
  \/ \E i \in LoopImports, p \in Paths :
       SaveRequestText(i, p, "v1") /\ ApiIdle
  \/ \E f \in Flushers : FlushSyncQueue(f) /\ ApiIdle
  \/ \E f \in Flushers : FlushItemOnBackend(f) /\ ApiIdle
  \/ BackendRecovers

\* the running sync loop: setInterval keeps calling flushSyncQueue, a pass that has
\* started goes on through its snapshot, and the backends eventually recover
LoopFairness ==
  /\ WF_vars(\E f \in Flushers : FlushSyncQueue(f) /\ ApiIdle)
  /\ \A f \in Flushers : WF_vars(FlushItemOnBackend(f) /\ ApiIdle)
  /\ WF_vars(BackendRecovers)

SpecLoopFair == InitDesktop /\ [][NextLoopFair]_vars /\ LoopFairness

\* ------------------------------------------------------------------ claims

\* C1: a sync-queue entry that no apply has yet succeeded on is in the queue under
\* its id with its import, path and content; the only step that takes an id out of
\* the queue is a flushSyncQueue iteration that applied that entry successfully,
\* and an iteration whose apply failed leaves exactly one record of that id in the
\* queue, with the same import, path and content and the caught error message.
C1_EntryKeptUntilApplied ==
  /\ [](\A k \in 1..Len(history) :
          history[k].id \notin applied =>
            \E e \in syncQueue :
              /\ e.id = history[k].id
              /\ e.importId = history[k].importId
              /\ e.relativePath = history[k].relativePath
              /\ e.content = history[k].content)
  /\ [][/\ \A e \in syncQueue :
             \/ \E kept \in syncQueue' :
                  /\ kept.id = e.id
                  /\ kept.importId = e.importId
                  /\ kept.relativePath = e.relativePath
                  /\ kept.content = e.content
                  /\ kept.createdAt = e.createdAt
             \/ \E f \in Flushers :
                  /\ flush[f].phase = "apply"
                  /\ flush'[f] # flush[f]
                  /\ flush[f].queue[flush[f].idx].id = e.id
                  /\ e.id \in applied'
                  /\ disk'[e.importId][e.relativePath] = e.content
        /\ \A f \in Flushers :
             (flush[f].phase = "apply" /\ flush'[f] # flush[f]) =>
               LET item == flush[f].queue[flush[f].idx]
               IN \/ /\ item.id \in applied'
                     /\ disk'[item.importId][item.relativePath] = item.content
                     /\ \A e \in syncQueue' : e.id # item.id
                  \/ /\ disk' = disk
                     /\ applied' = applied
                     /\ Cardinality({e \in syncQueue' : e.id = item.id}) = 1
                     /\ \E e \in syncQueue' :
                          /\ e.id = item.id
                          /\ e.importId = item.importId
                          /\ e.relativePath = item.relativePath
                          /\ e.content = item.content
                          /\ e.error # NoError]_vars

\* C1 witness: an apply has failed and its entry is in the queue with the error
C1_Witness ==
  \E e \in syncQueue : e.error # NoError /\ e.id \notin applied

\* C2: once every write queued for a path has been applied and no flush pass is
\* running, the backend file holds the content of the write created last.
C2_NewerWriteWins ==
  \A i \in ImportIds, p \in Paths :
    LET writes == {k \in 1..Len(history) :
                     history[k].importId = i /\ history[k].relativePath = p}
    IN (/\ writes # {}
        /\ \A k \in writes : history[k].id \in applied
        /\ \A e \in syncQueue : ~(e.importId = i /\ e.relativePath = p)
        /\ \A f \in Flushers : flush[f].phase = "idle")
       => disk[i][p] = history[CHOOSE k \in writes : \A j \in writes : j <= k].content

\* C3: pendingGitPaths never holds a path twice; on a git import it is exactly the
\* set of paths flushed successfully since the last commit, on a direct import it
\* is empty; and a flush iteration that applied an entry leaves the entry's path in
\* the import's pendingGitPaths if and only if the import's storageKind is git.
C3_PendingPathsTrackGitFlushes ==
  /\ [](\A i \in ImportIds :
          LET pending == imports[i].pendingGitPaths
          IN /\ \A a, b \in 1..Len(pending) : pending[a] = pending[b] => a = b
             /\ imports[i].storageKind = "git" => Range(pending) = flushedPaths[i]
             /\ imports[i].storageKind = "direct" => pending = <<>>)
  /\ [][\A f \in Flushers :
          (/\ flush[f].phase = "apply"
           /\ flush'[f] # flush[f]
           /\ \A e \in syncQueue' : e.id # flush[f].queue[flush[f].idx].id)
          => LET item == flush[f].queue[flush[f].idx]
             IN (imports[item.importId].storageKind = "git")
                  <=> (item.relativePath \in Range(imports'[item.importId].pendingGitPaths))]_vars

\* C3 witness: two flushes of distinct paths on the git import, both tracked
C3_Witness ==
  /\ Len(imports["ig"].pendingGitPaths) = 2
  /\ flushedPaths["ig"] = Paths

\* C4: the backend commit is invoked only by a commitWorkspaceChanges call whose
\* flush pass has finished, on an import of a strategy that supports commit, with
\* no queue entry left for that import; a call on a direct import ends rejected,
\* a call that finds an entry left ends blocked, and neither calls the backend.
C4_CommitOnlyWhenSupportedAndFlushed ==
  /\ [](/\ commit.called => imports[commit.importId].storageKind \in {"git", "github"}
        /\ (commit.result # "none" /\ imports[commit.importId].storageKind = "direct")
             => commit.result = "unsupported"
        /\ commit.result \in {"unsupported", "blocked"} => ~commit.called)
  /\ [][/\ commitCalls' # commitCalls =>
             /\ commit.pc = "flushing"
             /\ flush["commit"].phase = "idle"
             /\ imports[commit.importId].storageKind \in {"git", "github"}
             /\ \A e \in syncQueue : e.importId # commit.importId
        /\ (/\ commit.pc = "flushing"
            /\ commit'.pc # "flushing"
            /\ \E e \in syncQueue : e.importId = commit.importId)
             => (commit'.result = "blocked" /\ commitCalls' = commitCalls)]_vars

\* C4 witness: a commit was refused because its flush left an entry in the queue
C4_Witness ==
  /\ commit.result = "blocked"
  /\ \E e \in syncQueue : e.importId = commit.importId /\ e.error # NoError

\* C5: pendingGitPaths of an import goes from non-empty to empty only when the
\* backend accepted the commit in flight for it; when the backend's answer arrives,
\* acceptance empties pendingGitPaths and pendingGitFileContents, and a refusal
\* leaves every import record as it was and fails the call.
C5_PendingClearedIffCommitSucceeded ==
  [][/\ \A i \in ImportIds :
          (imports[i].pendingGitPaths # <<>> /\ imports'[i].pendingGitPaths = <<>>)
            => (commit.pc = "inflight" /\ commit.importId = i /\ commit'.accepted)
     /\ (commit.pc = "inflight" /\ commit'.pc # "inflight") =>
          IF commit'.accepted
          THEN /\ imports'[commit.importId].pendingGitPaths = <<>>
               /\ DOMAIN imports'[commit.importId].pendingGitFileContents = {}
               /\ commit'.result = "committed"
          ELSE /\ imports' = imports
               /\ commit'.result = "failed"]_vars

\* C5 witness: the backend refused a commit and the pending paths are still there
C5_Witness ==
  /\ commit.result = "failed"
  /\ commit.called
  /\ ~commit.accepted
  /\ imports[commit.importId].pendingGitPaths # <<>>

C7_StateConsumedAtMostOnce ==
  /\ \A t \in StateTokens : grants[t] <= 1
  /\ \A c \in Callbacks :
       callbacks[c].found = "used" =>
         (callbacks[c].pc = "done" /\ callbacks[c].error = "Invalid or expired OAuth state")

\* C7 witness: two callbacks presented one state; the second came inside the TTL
\* window and was turned away
C7_Witness ==
  \E c, d \in Callbacks :
    /\ c # d
    /\ callbacks[c].state = callbacks[d].state
    /\ callbacks[c].found = "live"
    /\ callbacks[d].found = "used"
    /\ \E r \in oauthStates :
         /\ r.state_hash = Sha256Base64Url(callbacks[d].state)
         /\ r.used_at # NotUsed
         /\ now < r.expires_at

\* C8: a callback exchanges the code and creates a session row and cookie only
\* after consuming a state that existed, was unused and unexpired; a callback whose
\* state is missing, used or expired ends with 400 "Invalid or expired OAuth
\* state", without an exchange, a session row or a cookie.
C8_SessionOnlyAfterLiveState ==
  /\ \A c \in Callbacks :
       LET cb == callbacks[c]
       IN /\ (\/ cb.pc \in {"exchange", "session"}
              \/ cb.exchanged
              \/ cb.sessionHash # ""
              \/ cb.cookie # "") => cb.found = "live"
          /\ cb.found \in {"missing", "used", "expired"} =>
               /\ cb.pc = "done"
               /\ cb.status = 400
               /\ cb.error = "Invalid or expired OAuth state"
               /\ ~cb.exchanged
               /\ cb.sessionHash = ""
               /\ cb.cookie = ""
  /\ \A r \in sessions :
       \E c \in Callbacks :
         callbacks[c].sessionHash = r.session_hash /\ callbacks[c].found = "live"
  /\ \A k \in cookies :
       \E c \in Callbacks : callbacks[c].cookie = k.value /\ callbacks[c].found = "live"

\* C8 witness: one callback came too late for its state, another one logged in
C8_Witness ==
  \E c, d \in Callbacks :
    /\ callbacks[c].found = "expired"
    /\ callbacks[d].status = 302
    /\ sessions # {}

\* C9: the remote commit is called only for a same-origin POST with a session whose
\* scopes hold repo or public_repo and a payload that validateCommitPayload accepts;
\* a session without such a scope gets 403 WRITE_SCOPE_REQUIRED with a
\* reauthorization URL and no remote call.
C9_RemoteCommitGuarded ==
  /\ lastCommitReq.remoteCalled =>
       /\ lastCommitReq.method = "POST"
       /\ lastCommitReq.origin = AppOrigin
       /\ lastCommitReq.validSession
       /\ lastCommitReq.scopes \cap {"repo", "public_repo"} # {}
       /\ ValidateCommitPayload(lastCommitReq.payload).ok
  /\ lastCommitReq.validSession =>
       \E r \in sessions : r.session_hash = Sha256Base64Url(lastCommitReq.cookie)
  /\ (lastCommitReq.validSession /\ lastCommitReq.scopes \cap {"repo", "public_repo"} = {}) =>
       /\ lastCommitReq.status = 403
       /\ lastCommitReq.error = "WRITE_SCOPE_REQUIRED"
       /\ lastCommitReq.reauthUrl # <<>>
       /\ ~lastCommitReq.remoteCalled

\* C9 witness: a read-only session asked for a commit with a valid payload
C9_Witness ==
  /\ lastCommitReq.validSession
  /\ lastCommitReq.status = 403
  /\ lastCommitReq.error = "WRITE_SCOPE_REQUIRED"
  /\ ValidateCommitPayload(lastCommitReq.payload).ok

\* C10: every github_sessions row is keyed by the digest of a session token that was
\* handed out in an HttpOnly cookie, none of its columns holds a session token or an
\* access token in plaintext, and its cipher column decrypts to an access token.
C10_SessionRowHoldsNoPlaintext ==
  /\ \A k \in cookies : k.httpOnly
  /\ \A r \in sessions :
       /\ \E k \in cookies : r.session_hash = Sha256Base64Url(k.value)
       /\ \A column \in {r.session_hash, r.github_user_id, r.github_login,
                         r.access_token_cipher} :
            column \notin SessionTokens \cup AccessTokens
       /\ r.scopes_text \cap (SessionTokens \cup AccessTokens) = {}
       /\ DecryptSecret(r.access_token_cipher, SessionEncryptionKey) \in AccessTokens

\* C10 witness: a session with a write token has been stored
C10_Witness ==
  \E r \in sessions :
    DecryptSecret(r.access_token_cipher, SessionEncryptionKey) = "gho_write"

\* C11: when two saveRequestText calls on the same import, for different requests,
\* have both completed, the cached snapshot holds the text of both.
C11_BothChangesKept ==
  \A c \in Callers, d \in Callers :
    (/\ calls[c].pc = "done" /\ calls[d].pc = "done"
     /\ calls[c].importId = calls[d].importId
     /\ calls[c].path # calls[d].path)
    => cacheWorkspace[calls[c].importId].texts[calls[c].path] = calls[c].text

\* C12: at most one flushSyncQueue pass is executing at any time.
C12_AtMostOnePassExecuting ==
  Cardinality({f \in Flushers : flush[f].phase = "apply"}) <= 1

\* C14: a snapshot that exists is left untouched by ensureEditableWorkspace: the
\* step that stores a snapshot of the readonly tree never changes a cached
\* snapshot that is already there, so edits it holds are never replaced.
C14_PromotionNeverReplacesSnapshot ==
  [][\A c \in Callers :
       (EnsureEditableWorkspacePut(c) /\ cacheWorkspace[calls[c].importId].present)
       => cacheWorkspace' = cacheWorkspace]_vars

C15_GitHubSaveStagesInsteadOfQueueing ==
  /\ [](/\ \A e \in syncQueue : ResolveStorageOption(imports[e.importId]).kind # "github"
        /\ \A i \in ImportIds, granted \in BOOLEAN :
             ResolveStorageOption(imports[i]).kind = "github"
             => ~CheckSave(ResolveStorageOption(imports[i]), imports[i], granted).ok
        /\ \A i \in ImportIds :
             ResolveStorageOption(imports[i]).kind = "github"
             => /\ DOMAIN imports[i].pendingGitFileContents = Range(imports[i].pendingGitPaths)
                /\ \A p \in DOMAIN imports[i].pendingGitFileContents :
                     imports[i].pendingGitFileContents[p] = cacheWorkspace[i].texts[p])
  /\ [][\A i \in ImportIds, p \in Paths, text \in Contents :
          SaveGitHubRequestText(i, p, text)
          => /\ syncQueue' = syncQueue
             /\ p \in Range(imports'[i].pendingGitPaths)
             /\ imports'[i].pendingGitFileContents[p] = text]_vars
  /\ [][(CommitInvoke /\ commit'.pc = "inflight"
         /\ ResolveStorageOption(imports[commit.importId]).kind = "github")
        => /\ DOMAIN commit'.files = Range(imports[commit.importId].pendingGitPaths)
           /\ \A p \in DOMAIN commit'.files :
                commit'.files[p] = cacheWorkspace[commit.importId].texts[p]]_vars

\* one request of the github import was saved twice and the commit call in flight
\* carries the text saved last
C15_Witness ==
  /\ commit.pc = "inflight"
  /\ commit.importId = "ih"
  /\ saves = 2
  /\ history = <<>>
  /\ Len(imports["ih"].pendingGitPaths) = 1
  /\ \E p \in Paths : /\ DOMAIN commit.files = {p}
                      /\ commit.files[p] = "v2"
                      /\ cacheWorkspace["ih"].texts[p] = "v2"
  /\ syncQueue = {}

\* C16: on a browser-directory import without read-write permission the save check
\* is not ok and carries a reason, applySyncWrite throws that reason whatever the
\* write would have answered, and the flush iteration writes nothing and keeps the
\* entry in the queue with the reason as its error.
C16_DeniedPermissionNeverWrites ==
  /\ [](\A i \in LoopImports :
          ResolveStorageOption(imports[i]).name = "web-direct"
          => LET check == CheckSave(ResolveStorageOption(imports[i]), imports[i], FALSE)
             IN /\ ~check.ok
                /\ check.reason = "No write permission for selected directory"
                /\ \A writeOk \in BOOLEAN :
                     ApplySyncWrite(imports[i], FALSE, writeOk) = check.reason)
  /\ [][\A f \in Flushers, writeOk \in BOOLEAN :
          (/\ flush[f].phase = "apply"
           /\ ResolveStorageOption(imports[flush[f].queue[flush[f].idx].importId]).name
                = "web-direct"
           /\ FlushIteration(f, FALSE, writeOk))
          => LET item == flush[f].queue[flush[f].idx]
             IN /\ disk' = disk
                /\ applied' = applied
                /\ [item EXCEPT !.error = "No write permission for selected directory"]
                     \in syncQueue']_vars

\* an entry of the browser-directory import is in the queue with the denial as its
\* error and the file untouched
C16_Witness ==
  \E e \in syncQueue :
    /\ e.importId = "iw"
    /\ e.error = "No write permission for selected directory"
    /\ disk["iw"][e.relativePath] = OriginalText
    /\ e.id \notin applied

C18_SyncStateFromOwnEntries ==
  \A i \in LoopImports :
    LET own == {e \in syncQueue : e.importId = i}
        state == BuildSyncStatus(i, ListSyncQueue(syncQueue))
    IN /\ state = IF \E e \in own : e.error # NoError THEN "error"
                  ELSE IF own # {} THEN "pending"
                  ELSE "synced"
       /\ state = BuildSyncStatus(i, ListSyncQueue(own))

\* one import has a failed entry, the other an entry without error: the first
\* reports error, the second pending
C18_Witness ==
  /\ \E e \in syncQueue : e.importId = "id" /\ e.error # NoError
  /\ \E e \in syncQueue : e.importId = "iw"
  /\ \A e \in syncQueue : e.importId = "iw" => e.error = NoError
  /\ BuildSyncStatus("id", ListSyncQueue(syncQueue)) = "error"
  /\ BuildSyncStatus("iw", ListSyncQueue(syncQueue)) = "pending"

\* C19: validateCommitPayload returns no payload for a body in which the path of
\* some file has a ".." piece, and for a well-formed body with one file under the
\* size caps it returns a payload whose one file has the content of the body's file.
C19_DotDotRejectedOneFileKept ==
  probe.applied =>
    LET files == probe.input.files
        wellFormedOneFile ==
          /\ [probe.input EXCEPT !.files = GoodPayload.files] = GoodPayload
          /\ Len(files) = 1
          /\ DropEmpty(files[1].path) # <<>>
          /\ \A k \in 1..Len(files[1].path) :
               /\ files[1].path[k] \notin {".", ".."}
               /\ files[1].path[k] # "" => SegmentPattern(files[1].path[k])
          /\ ByteLength(files[1].content) <= FILE_BYTES_MAX
    IN /\ (\E k \in 1..Len(files) : ".." \in Range(files[k].path)) => ~probe.result.ok
       /\ wellFormedOneFile
          => /\ probe.result.ok
             /\ Len(probe.result.files) = 1
             /\ probe.result.files[1].content = files[1].content

\* C20: verifyGitHubWebhookSignature answers true for the signature computed from
\* the same payload and secret, false for that signature when the secret or the
\* payload differs or when its prefix is not "sha256=", and false without a header.
C20_SignatureVerifiedIffSamePayloadSecretPrefix ==
  probe.applied =>
    LET signature == ComputeGitHubWebhookSignature(probe.signedPayload, probe.signedSecret)
    IN /\ (/\ probe.header = signature
           /\ probe.payload = probe.signedPayload
           /\ probe.secret = probe.signedSecret) => probe.result
       /\ (/\ probe.header \in PresentedHeaders(signature)
           /\ \/ probe.payload # probe.signedPayload
              \/ probe.secret # probe.signedSecret
              \/ probe.header.prefix # "sha256="
              \/ probe.header = NoHeader) => ~probe.result

\* a request signed with the receiver's secret over the payload it carries was
\* verified
C20_Witness ==
  /\ probe.applied
  /\ probe.fn = "verifyGitHubWebhookSignature"
  /\ probe.header = ComputeGitHubWebhookSignature(probe.payload, probe.secret)
  /\ probe.result
  /\ probe.status = 202

\* C22: resolveStorageOption answers the remote-git strategy for (web, github), the
\* local-git strategy for (tauri, git) and a direct strategy for every other pair;
\* only the two git strategies support commit; every record with the same runtime
\* and storageKind resolves to the same strategy, and a second call on the same
\* record gives the same kind as the first.
C22_StrategyFromRuntimeAndKind ==
  probe.count >= 1 =>
    LET runtime == probe.input.runtime
        storageKind == probe.input.storageKind
    IN /\ (runtime = "web" /\ storageKind = "github") =>
            (probe.first.name = "web-github" /\ probe.first.kind = "github")
       /\ (runtime = "tauri" /\ storageKind = "git") =>
            (probe.first.name = "tauri-git" /\ probe.first.kind = "git")
       /\ ~(runtime = "web" /\ storageKind = "github")
          /\ ~(runtime = "tauri" /\ storageKind = "git") => probe.first.kind = "direct"
       /\ probe.first.supportsCommit <=> probe.first.kind \in {"git", "github"}
       /\ \A other \in ResolveInputs :
            (other.runtime = runtime /\ other.storageKind = storageKind)
            => ResolveStorageOption(other) = probe.first
       /\ probe.count = 2 => probe.second.kind = probe.first.kind

\* a tauri record marked github was resolved twice, both times to a direct strategy
C22_Witness ==
  /\ probe.fn = "resolveStorageOption"
  /\ probe.count = 2
  /\ probe.input.runtime = "tauri"
  /\ probe.input.storageKind = "github"
  /\ probe.first.kind = "direct"
  /\ probe.second.kind = "direct"

\* C21: the scan emits no workspace for a repository whose tree response is
\* truncated, whatever request blobs the tree lists, and a truncated repository does
\* not stop the scan: when the scan returns, every repository with a complete tree
\* has exactly the workspaces of its tree, also after a truncated one.
C21_TruncatedRepositorySkippedOthersScanned ==
  probe.fn = "extractWorkspacesFromRepos" =>
    /\ \A k \in 1..Len(probe.responses) :
         probe.responses[k].truncated =>
           ~\E s \in probe.snapshots : s.repo = GitHubRepo(k).name
    /\ \A k \in 1..probe.index :
         ~probe.responses[k].truncated =>
           {s \in probe.snapshots : s.repo = GitHubRepo(k).name}
             = SnapshotsOfTree(GitHubRepo(k), probe.responses[k].tree)
    /\ (probe.pc = "loop" /\ probe.index < Len(probe.responses)
        /\ probe.responses[probe.index + 1].truncated) => ENABLED ExtractWorkspacesFromReposStep

\* the scan returned: the first repository's truncated tree lists a request blob of
\* a workspace and gave nothing, the second repository's workspace was emitted
C21_Witness ==
  /\ probe.fn = "extractWorkspacesFromRepos"
  /\ probe.pc = "returned"
  /\ Len(probe.responses) = 2
  /\ probe.responses[1].truncated
  /\ \E e \in probe.responses[1].tree : e.sha = "sha-list"
  /\ ~probe.responses[2].truncated
  /\ \E s \in probe.snapshots : s.repo = GitHubRepo(2).name /\ s.workspaceName = "api"
  /\ ~\E s \in probe.snapshots : s.repo = GitHubRepo(1).name

C24_EditFlushCommitScenario ==
  [][/\ (/\ saves' = saves + 1
         /\ Len(history') = Len(history) + 1
         /\ history'[Len(history')].importId = "ig")
        => /\ Cardinality(syncQueue') = Cardinality(syncQueue) + 1
           /\ history'[Len(history')] \in syncQueue'
     /\ (/\ saves = 1
         /\ Len(history) = 1
         /\ history[1].importId = "ig"
         /\ history[1].relativePath = "users/List.http"
         /\ syncQueue = {history[1]}
         /\ imports["ig"].pendingGitPaths = <<>>
         /\ Cardinality({f \in Flushers : flush[f].phase = "apply"}) = 1
         /\ applied' # applied)
        => /\ syncQueue' = {}
           /\ imports'["ig"].pendingGitPaths = <<"users/List.http">>
           /\ \A f \in Flushers : flush'[f].phase = "idle"
     /\ (commit'.importId = "ig" /\ commit'.given = "" /\ commit'.pc # "idle")
        => commit'.message = "chore(eshttp): sync workspace changes"
     /\ (commit.importId = "ig" /\ commit.pc = "inflight" /\ commit'.result = "committed")
        => imports'["ig"].pendingGitPaths = <<>>]_vars

\* the scenario has run to its end: one edit of users/List.http, applied, then
\* committed with the default message, nothing queued and nothing pending
C24_Witness ==
  /\ saves = 1
  /\ Len(history) = 1
  /\ history[1].importId = "ig"
  /\ history[1].relativePath = "users/List.http"
  /\ applied = {history[1].id}
  /\ syncQueue = {}
  /\ commit.importId = "ig"
  /\ commit.given = ""
  /\ commit.message = DEFAULT_COMMIT_MESSAGE
  /\ commit.result = "committed"
  /\ commit.committedPaths = 1
  /\ imports["ig"].pendingGitPaths = <<>>

\* C25: for every returnTo given to the start endpoint, the location the callback
\* finally redirects to resolves to the application's own origin.
C25_RedirectStaysOnAppOrigin ==
  (probe.fn = "returnTo" /\ probe.pc = "redirected")
  => LocationOrigin(probe.location, AppOrigin) = AppOrigin

\* C29: the consumed marker of a state record is set once and never cleared: a
\* hash whose row is marked used has, after any saveOAuthState or consumeOAuthState
\* call, no row that is unused, so it never becomes consumable again.
C29_ConsumedMarkerNeverCleared ==
  [][\A row \in oauthStates :
       row.used_at # NotUsed =>
         \A next \in oauthStates' :
           next.state_hash = row.state_hash => next.used_at # NotUsed]_vars

\* C26: once a queue entry has been deleted after a successful apply, no later
\* step stores an entry with that id again.
C26_AppliedEntryNeverStoredAgain ==
  [][\A id \in applied :
       (~\E e \in syncQueue : e.id = id) => (~\E e \in syncQueue' : e.id = id)]_vars

\* C28: a saveRequestText call that has ended either completed with its queue entry
\* created or failed without changing the cache: for every edit the cached snapshot
\* holds, a queue entry with the same import, path and text was created, or the
\* call that stored it is still on its way to creating one.
C28_CachedEditHasQueueEntry ==
  \A i \in LoopImports, p \in Paths :
    (cacheWorkspace[i].present /\ cacheWorkspace[i].texts[p] # OriginalText)
    => \/ \E k \in 1..Len(history) :
            /\ history[k].importId = i
            /\ history[k].relativePath = p
            /\ history[k].content = cacheWorkspace[i].texts[p]
       \/ \E c \in Callers :
            /\ calls[c].pc = "queue"
            /\ calls[c].importId = i
            /\ calls[c].path = p
            /\ calls[c].text = cacheWorkspace[i].texts[p]

\* C27: a path leaves an import's pendingGitPaths only in the step in which a commit
\* of that import succeeds, and only if the committed set contained the path: a
\* path appended or staged while the commit call was in flight stays pending.
C27_PathLeavesPendingOnlyWhenCommitted ==
  [][\A i \in ImportIds :
       \A p \in Range(imports[i].pendingGitPaths) \ Range(imports'[i].pendingGitPaths) :
         /\ commit.pc = "inflight"
         /\ commit.importId = i
         /\ commit'.result = "committed"
         /\ ToRepoRelativePath(imports[i], p) \in Range(commit.paths)]_vars

\* C30: commitWorkspaceFiles changes the branch head only in its last step, when a
\* blob for every file, the tree and the commit have been created, and only if the
\* head is still the parent commit it read; every other step of the call leaves
\* the head alone, so a call that threw, or that found the branch moved, has not
\* moved the branch, and a call that returned has put all its files on it.
C30_RefMovedLastAndOnlyFastForward ==
  [][probe.fn = "commitWorkspaceFiles" =>
       /\ (probe'.head # probe.head /\ probe'.pc # probe.pc) =>
            /\ probe.pc = "updateRef"
            /\ probe'.pc = "returned"
            /\ probe.head = probe.refSha
            /\ probe'.head = "c1"
            /\ probe.commitCreated
            /\ probe.commitParents = <<probe.refSha>>
            /\ probe.treeCreated
            /\ Len(probe.tree) = Len(probe.entries)
       /\ probe'.pc = "threw" => (probe'.head = probe.head /\ ~probe'.refUpdated)
       /\ probe'.pc = "returned" => (probe'.refUpdated /\ probe'.head = "c1")
       /\ (probe.pc = "updateRef" /\ probe.head # probe.refSha) => probe'.head = probe.head
    ]_vars

\* the call got as far as the ref update, the branch had moved since the parent was
\* read, and the call threw with the other party's commit still the head
C30_Witness ==
  /\ probe.fn = "commitWorkspaceFiles"
  /\ probe.pc = "threw"
  /\ probe.commitCreated
  /\ Len(probe.tree) = 2
  /\ probe.refSha = "c0"
  /\ probe.head = "cx"
  /\ ~probe.refUpdated

====
